---- MODULE Spec2Model ----
(***************************************************************************)
(* A model of the Shim text editor (src/shim.c): the row store, the        *)
(* raw/render index mapping, the per-row highlighter with its cross-row    *)
(* cascade, loading and flattening, and the key handlers that edit the     *)
(* buffer.                                                                 *)
(*                                                                         *)
(* Conventions.  A C char is a one-character string; the terminating NUL   *)
(* of a C string is the value NUL.  A C array is a sequence; every index   *)
(* that crosses an operator's interface is 0-based, as in the source, and  *)
(* is shifted by one only where a sequence is subscripted.                 *)
(***************************************************************************)
EXTENDS Integers, Sequences, FiniteSets, TLC

VARIABLES
  E,        \* struct editorConfig E: the fields the handlers below read or write
  pc,       \* position of main(): "init", "loop", "find", "saveas", "exited" or "crashed"
  saved,    \* history variable: the rows' raw contents when E.dirty was last set to 0
  mp,       \* harness of the index mapper: a row, an offset and the results
  statics,  \* the static locals of editorProcessKeypress and editorFindCallback
  call,     \* the locals of the editorFind, editorSave and editorPrompt calls in progress
  disk,     \* the file system: what the last write() of editorSave left in the file
  hist      \* history variable: what the frames and the search session have seen

others == <<statics, call, disk, hist>>

vars == <<E, pc, saved, mp, statics, call, disk, hist>>

-----------------------------------------------------------------------------
(* Constants of the program *)

SHIM_TAB_STOP == 8
SHIM_QUIT_TIMES == 3

\* a null pointer (to a string or to an HLDB entry)
NULL == <<>>
NUL == "NUL"
TAB == "\t"
LF == "\n"
CR == "\r"
SP == " "

HL_NORMAL == "HL_NORMAL"
HL_COMMENT == "HL_COMMENT"
HL_MLCOMMENT == "HL_MLCOMMENT"
HL_KEYWORD1 == "HL_KEYWORD1"
HL_KEYWORD2 == "HL_KEYWORD2"
HL_STRING == "HL_STRING"
HL_NUMBER == "HL_NUMBER"
HL_MATCH == "HL_MATCH"
HL_SPECIAL == "HL_SPECIAL"
HL_ERROR == "HL_ERROR"

-----------------------------------------------------------------------------
(* C library and array helpers *)

\* s[i] of a NUL-terminated buffer holding the characters of s
CharAt(s, i) == IF i >= 0 /\ i < Len(s) THEN s[i + 1] ELSE NUL

\* strncmp(&s[i], t, strlen(t)) == 0
StartsWith(s, i, t) == \A k \in 1..Len(t) : CharAt(s, i + k - 1) = t[k]

\* memset(&a[at], v, n), for the cells that lie inside a
MemSet(a, at, v, n) ==
  [j \in 1..Len(a) |-> IF j - 1 >= at /\ j - 1 < at + n THEN v ELSE a[j]]

\* the indices of memset(&a[at], v, n) that lie outside a
MemSetOutside(a, at, n) == {j \in at..(at + n - 1) : j < 0 \/ j >= Len(a)}

isspace(c) == c \in {SP, TAB, LF, CR, "\f", "VT"}

isdigit(c) == c \in {"0", "1", "2", "3", "4", "5", "6", "7", "8", "9"}

is_separator(c) ==
  \/ isspace(c)
  \/ c = NUL
  \/ c \in {",", ".", "(", ")", "+", "-", "/", "*", "!", "?", "=", "~", "%",
            "<", ">", "[", "]", "{", "}", ":", ";", "&", "|", "^", "\"", "'", "\\"}

\* the number of decimal digits of num >= 0
RECURSIVE ndigits(_)
ndigits(num) == IF num \div 10 = 0 THEN 1 ELSE 1 + ndigits(num \div 10)

-----------------------------------------------------------------------------
(* Index mapper *)

\* the render column after one more raw character c read at render column rx
AdvanceFixedWidth(rx, c) == IF c = TAB THEN rx + SHIM_TAB_STOP ELSE rx + 1

Advance(rx, c) ==
  IF c = TAB THEN rx + ((SHIM_TAB_STOP - 1) - (rx % SHIM_TAB_STOP)) + 1 ELSE rx + 1

\* the loop of editorRowCxtoRx from raw index j with render column rx
RECURSIVE CxtoRxLoop(_, _, _, _)
CxtoRxLoop(chars, cx, j, rx) ==
  IF j < cx THEN CxtoRxLoop(chars, cx, j + 1, Advance(rx, CharAt(chars, j))) ELSE rx

editorRowCxtoRx(chars, cx) == CxtoRxLoop(chars, cx, 0, 0)

\* the loop of editorRowRxtoCx from raw index cx with render column curr_rx
RECURSIVE RxtoCxLoop(_, _, _, _)
RxtoCxLoopOffByOne(chars, rx, cx, curr_rx) ==
  IF cx < Len(chars)
  THEN LET nxt == Advance(curr_rx, chars[cx + 1])
       IN IF nxt >= rx THEN cx ELSE RxtoCxLoop(chars, rx, cx + 1, nxt)
  ELSE cx

RxtoCxLoop(chars, rx, cx, curr_rx) ==
  IF cx < Len(chars)
  THEN LET nxt == Advance(curr_rx, chars[cx + 1])
       IN IF nxt > rx THEN cx ELSE RxtoCxLoop(chars, rx, cx + 1, nxt)
  ELSE cx

editorRowRxtoCx(chars, rx) == RxtoCxLoop(chars, rx, 0, 0)

\* the second loop of editorUpdateRow: the render text of chars[j..], appended to render
RECURSIVE PadToTabStop(_)
PadToTabStop(render) ==
  IF Len(render) % SHIM_TAB_STOP # 0 THEN PadToTabStop(Append(render, SP)) ELSE render

RECURSIVE RenderLoop(_, _, _)
RenderLoop(chars, j, render) ==
  IF j < Len(chars)
  THEN IF chars[j + 1] = TAB
       THEN RenderLoop(chars, j + 1, PadToTabStop(Append(render, SP)))
       ELSE RenderLoop(chars, j + 1, Append(render, chars[j + 1]))
  ELSE render

RenderOf(chars) == RenderLoop(chars, 0, <<>>)

-----------------------------------------------------------------------------
(* Highlight database *)

C_HL_extensions ==
  << <<".", "c">>,
     <<".", "h">>,
     <<".", "c", "p", "p">>,
     <<".", "h", "p", "p">>,
     <<".", "c", "c">> >>

C_HL_keywords ==
  << <<"s", "w", "i", "t", "c", "h">>,
     <<"i", "f">>,
     <<"d", "o">>,
     <<"w", "h", "i", "l", "e">>,
     <<"f", "o", "r">>,
     <<"b", "r", "e", "a", "k">>,
     <<"c", "o", "n", "t", "i", "n", "u", "e">>,
     <<"r", "e", "t", "u", "r", "n">>,
     <<"e", "l", "s", "e">>,
     <<"g", "o", "t", "o">>,
     <<"s", "t", "r", "u", "c", "t">>,
     <<"u", "n", "i", "o", "n">>,
     <<"t", "y", "p", "e", "d", "e", "f">>,
     <<"e", "n", "u", "m">>,
     <<"c", "l", "a", "s", "s">>,
     <<"c", "a", "s", "e">>,
     <<"d", "e", "f", "a", "u", "l", "t">>,
     <<"s", "i", "z", "e", "o", "f">>,
     <<"i", "n", "t", "|">>,
     <<"l", "o", "n", "g", "|">>,
     <<"d", "o", "u", "b", "l", "e", "|">>,
     <<"f", "l", "o", "a", "t", "|">>,
     <<"s", "h", "o", "r", "t", "|">>,
     <<"c", "h", "a", "r", "|">>,
     <<"u", "n", "s", "i", "g", "n", "e", "d", "|">>,
     <<"s", "i", "g", "n", "e", "d", "|">>,
     <<"c", "o", "n", "s", "t", "|">>,
     <<"s", "t", "a", "t", "i", "c", "|">>,
     <<"v", "o", "i", "d", "|">>,
     <<"a", "u", "t", "o", "|">>,
     <<"b", "o", "o", "l", "|">>,
     <<"r", "e", "g", "i", "s", "t", "e", "r", "|">>,
     <<"e", "x", "t", "e", "r", "n", "|">>,
     <<"v", "o", "l", "a", "t", "i", "l", "e", "|">>,
     <<"s", "i", "z", "e", "_", "t", "|">>,
     <<"p", "t", "r", "d", "i", "f", "f", "_", "t", "|">> >>

C_HL_specials ==
  << <<"i", "n", "c", "l", "u", "d", "e">>,
     <<"d", "e", "f", "i", "n", "e">>,
     <<"u", "n", "d", "e", "f">>,
     <<"i", "f">>,
     <<"i", "f", "d", "e", "f">>,
     <<"i", "f", "n", "d", "e", "f">>,
     <<"e", "l", "s", "e">>,
     <<"e", "l", "i", "f">>,
     <<"e", "n", "d", "i", "f">>,
     <<"p", "r", "a", "g", "m", "a">> >>

HL_HIGHLIGHT_NUMBERS == "HL_HIGHLIGHT_NUMBERS"
HL_HIGHLIGHT_STRINGS == "HL_HIGHLIGHT_STRINGS"
HL_HIGHLIGHT_SPECIAL == "HL_HIGHLIGHT_SPECIAL"

HLDB ==
  << [ filetype |-> <<"c">>,
       filematch |-> C_HL_extensions,
       keywords |-> C_HL_keywords,
       specials |-> C_HL_specials,
       special_start |-> "#",
       singleline_comment_start |-> <<"/", "/">>,
       multiline_comment_start |-> <<"/", "*">>,
       multiline_comment_end |-> <<"*", "/">>,
       flags |-> {HL_HIGHLIGHT_NUMBERS, HL_HIGHLIGHT_STRINGS, HL_HIGHLIGHT_SPECIAL} ] >>

-----------------------------------------------------------------------------
(* Highlighter: the scan of one row (the while loop of editorUpdateSyntax)   *)
(*                                                                         *)
(* The scan state is a record of the loop's locals: i, c, prev_sep,        *)
(* in_string (NUL when 0), in_comment, in_special and the hl array.  Three *)
(* fields are history: oob, the indices outside hl that the loop wrote to, *)
(* starts, the indices where a block-comment start marker was recognised,  *)
(* and brk, set when the loop leaves through its break.                    *)

\* row->hl[at..at+n-1] = v, recording the writes that fall outside the array
Put(s, at, v, n) ==
  [s EXCEPT !.hl = MemSet(s.hl, at, v, n),
            !.oob = @ \cup MemSetOutside(s.hl, at, n)]

\* while(i < row->rsize && !isspace(c = row->render[i])) { hl[i] = HL_SPECIAL; i++; }
RECURSIVE ConsumeSpecial(_, _)
ConsumeSpecial(render, s) ==
  IF s.i < Len(render)
  THEN LET c == render[s.i + 1]
       IN IF ~isspace(c)
          THEN ConsumeSpecial(render,
                 [Put(s, s.i, HL_SPECIAL, 1) EXCEPT !.c = c, !.i = s.i + 1])
          ELSE [s EXCEPT !.c = c]
  ELSE s

\* while(isspace(c = row->render[i])) i++;
RECURSIVE SkipSpaces(_, _)
SkipSpaces(render, i) ==
  IF isspace(CharAt(render, i)) THEN SkipSpaces(render, i + 1) ELSE i

\* for(j = 0; specials[j]; j++): its continue resumes this for loop
RECURSIVE MatchSpecials(_, _, _, _, _)
MatchSpecials(render, specials, j, idx, s) ==
  IF j > Len(specials) THEN s
  ELSE LET slen == Len(specials[j])
       IN IF /\ StartsWith(render, s.i, specials[j])
             /\ is_separator(CharAt(render, s.i + slen))
          THEN MatchSpecials(render, specials, j + 1, idx,
                 [Put(Put(s, idx, HL_SPECIAL, 1), s.i, HL_SPECIAL, slen)
                    EXCEPT !.in_special = TRUE, !.i = s.i + slen - 1, !.prev_sep = FALSE])
          ELSE MatchSpecials(render, specials, j + 1, idx, s)

\* int idx = i++; while(isspace(c = row->render[i])) i++; has left i at i1
SpecialStart(render, syn, s, i1) ==
  MatchSpecials(render, syn.specials, 1, s.i,
    [s EXCEPT !.i = i1, !.c = CharAt(render, i1)])

\* the HL_HIGHLIGHT_SPECIAL block: control falls through to the string block
SpecialPart(render, syn, s) ==
  IF HL_HIGHLIGHT_SPECIAL \notin syn.flags THEN s
  ELSE IF s.in_special THEN ConsumeSpecial(render, s)
  ELSE IF s.in_string = NUL /\ s.c = syn.special_start
  THEN SpecialStart(render, syn, s, SkipSpaces(render, s.i + 1))
  ELSE s

\* the HL_HIGHLIGHT_STRINGS block takes the iteration (it ends in continue)
StringTakes(syn, s) ==
  /\ HL_HIGHLIGHT_STRINGS \in syn.flags
  /\ (s.in_string # NUL \/ s.c \in {"\"", "'"})

\* inside a string, after row->hl[i++] = HL_STRING has turned s into a
StringInside(render, s, a) ==
  IF s.c = "\\" /\ a.i + 1 < Len(render)
  THEN [Put(a, a.i, HL_STRING, 1) EXCEPT !.i = a.i + 1]
  ELSE [a EXCEPT !.in_string = IF s.c = s.in_string THEN NUL ELSE @,
                 !.prev_sep = TRUE]

StringPart(render, s) ==
  IF s.in_string # NUL
  THEN StringInside(render, s, [Put(s, s.i, HL_STRING, 1) EXCEPT !.i = s.i + 1])
  ELSE [Put(s, s.i, HL_STRING, 1) EXCEPT !.in_string = s.c, !.i = s.i + 1]

\* the HL_HIGHLIGHT_NUMBERS block is entered
NumberTakes(render, syn, s) ==
  /\ HL_HIGHLIGHT_NUMBERS \in syn.flags
  /\ s.prev_sep
  /\ \/ isdigit(s.c)
     \/ s.c = "." /\ s.i + 1 < Len(render) /\ isdigit(render[s.i + 2])

\* one pass through the body of the do-while; n holds the block's locals
NumBody(render, n) ==
  LET number == [n EXCEPT !.prev_hl = HL_NUMBER, !.curr_hl = HL_NUMBER,
                          !.prev_sep = FALSE, !.i = n.i + 1]
      dot == ~n.is_octa /\ ~n.is_hexa /\ n.c = "."
      count == IF dot THEN n.count + 1 ELSE n.count
  IN IF n.err_flag THEN [n EXCEPT !.i = n.i + 1]
     ELSE IF \/ n.is_octa /\ n.c \in {"0", "1", "2", "3", "4", "5", "6", "7"}
             \/ n.is_hexa /\ \/ isdigit(n.c)
                             \/ n.c \in {"A", "B", "C", "D", "E", "F"}
                             \/ n.c \in {"a", "b", "c", "d", "e", "f"}
     THEN number
     ELSE IF /\ ~n.is_octa /\ ~n.is_hexa /\ isdigit(n.c)
             /\ ((n.prev_sep /\ n.c # "0") \/ n.prev_hl = HL_NUMBER)
     THEN number
     ELSE IF dot /\ count = 1 /\ n.prev_hl \in {HL_NUMBER, HL_NORMAL}
     THEN [number EXCEPT !.count = count]
     ELSE IF n.prev_sep /\ n.c = "0"
     THEN LET look == ~n.is_hexa /\ ~n.is_octa /\ n.i + 1 < Len(render)
              c == IF look THEN render[n.i + 2] ELSE n.c
              octa == look /\ isdigit(c)
              hexa == look /\ ~isdigit(c) /\ c \in {"x", "X"}
          IN [number EXCEPT !.count = count, !.c = c,
                            !.is_octa = n.is_octa \/ octa,
                            !.is_hexa = n.is_hexa \/ hexa,
                            !.i = IF hexa THEN n.i + 2 ELSE n.i + 1]
     ELSE [n EXCEPT !.count = count,
                    !.curr_hl = IF count > 1 THEN HL_NORMAL ELSE HL_ERROR,
                    !.err_flag = TRUE, !.i = n.i + 1]

\* do { ... } while(i < row->rsize && (!is_separator(c = row->render[i]) || c == '.'))
RECURSIVE NumLoop(_, _)
NumWhile(render, b) ==
  IF b.i < Len(render)
  THEN IF ~is_separator(render[b.i + 1]) \/ render[b.i + 1] = "."
       THEN NumLoop(render, [b EXCEPT !.c = render[b.i + 1]])
       ELSE [b EXCEPT !.c = render[b.i + 1]]
  ELSE b

NumLoop(render, n) == NumWhile(render, NumBody(render, n))

\* memset(row->hl + start, curr_hl, hl_size) once the do-while has ended with locals n
NumberDone(s, start, n) ==
  [Put(s, start, n.curr_hl, n.i - start)
     EXCEPT !.i = n.i, !.c = n.c, !.prev_sep = n.prev_sep]

\* the HL_HIGHLIGHT_NUMBERS block: control falls through to the keyword block
NumberPart(render, syn, s) ==
  IF ~NumberTakes(render, syn, s) THEN s
  ELSE NumberDone(s, s.i,
         NumLoop(render,
           [i |-> s.i, c |-> s.c, prev_sep |-> s.prev_sep,
            prev_hl |-> IF s.i > 0 THEN CharAt(s.hl, s.i - 1) ELSE HL_NORMAL,
            curr_hl |-> HL_NORMAL, err_flag |-> FALSE,
            is_hexa |-> FALSE, is_octa |-> FALSE, count |-> 0]))

\* for(j = 0; keywords[j]; j++): the loop has no break, so it always ends on the NULL entry
RECURSIVE MatchKeywords(_, _, _, _)
MatchKeywordsSkipsNextByte(render, keywords, j, s) ==
  IF j > Len(keywords) THEN s
  ELSE LET kw == keywords[j]
           kw2 == kw[Len(kw)] = "|"
           kwlen == IF kw2 THEN Len(kw) - 1 ELSE Len(kw)
       IN IF /\ StartsWith(render, s.i, SubSeq(kw, 1, kwlen))
             /\ is_separator(CharAt(render, s.i + kwlen))
          THEN MatchKeywords(render, keywords, j + 1,
                 [Put(s, s.i, IF kw2 THEN HL_KEYWORD2 ELSE HL_KEYWORD1, kwlen)
                    EXCEPT !.i = s.i + kwlen])
          ELSE MatchKeywords(render, keywords, j + 1, s)

MatchKeywords(render, keywords, j, s) ==
  IF j > Len(keywords) THEN s
  ELSE LET kw == keywords[j]
           kw2 == kw[Len(kw)] = "|"
           kwlen == IF kw2 THEN Len(kw) - 1 ELSE Len(kw)
       IN IF /\ StartsWith(render, s.i, SubSeq(kw, 1, kwlen))
             /\ is_separator(CharAt(render, s.i + kwlen))
          THEN MatchKeywords(render, keywords, j + 1,
                 [Put(s, s.i, IF kw2 THEN HL_KEYWORD2 ELSE HL_KEYWORD1, kwlen)
                    EXCEPT !.i = s.i + kwlen - 1])
          ELSE MatchKeywords(render, keywords, j + 1, s)

KeywordPart(render, syn, s) ==
  IF s.prev_sep THEN MatchKeywords(render, syn.keywords, 1, s) ELSE s

\* the block-comment block, which always ends in continue when it is taken
BlockCommentTakes(render, syn, s) ==
  /\ Len(syn.multiline_comment_start) # 0
  /\ Len(syn.multiline_comment_end) # 0
  /\ s.in_string = NUL
  /\ (s.in_comment \/ StartsWith(render, s.i, syn.multiline_comment_start))

\* inside a block comment, after row->hl[i] = HL_MLCOMMENT has turned the state into a
BlockCommentInsideNeverEnds(render, syn, a, mce_len) ==
  IF StartsWith(render, a.i, syn.multiline_comment_end)
  THEN [Put(a, a.i, HL_MLCOMMENT, mce_len) EXCEPT !.i = a.i + mce_len, !.prev_sep = TRUE]
  ELSE [a EXCEPT !.i = a.i + 1]

BlockCommentInside(render, syn, a, mce_len) ==
  IF StartsWith(render, a.i, syn.multiline_comment_end)
  THEN [Put(a, a.i, HL_MLCOMMENT, mce_len)
          EXCEPT !.i = a.i + mce_len, !.in_comment = FALSE, !.prev_sep = TRUE]
  ELSE [a EXCEPT !.i = a.i + 1]

BlockCommentPart(render, syn, s) ==
  IF s.in_comment
  THEN BlockCommentInside(render, syn, Put(s, s.i, HL_MLCOMMENT, 1),
                          Len(syn.multiline_comment_end))
  ELSE [Put(s, s.i, HL_MLCOMMENT, Len(syn.multiline_comment_start))
          EXCEPT !.i = s.i + Len(syn.multiline_comment_start), !.in_comment = TRUE,
                 !.starts = @ \cup {s.i}]

LineCommentTakes(render, syn, s) ==
  /\ Len(syn.singleline_comment_start) # 0
  /\ s.in_string = NUL
  /\ ~s.in_comment
  /\ StartsWith(render, s.i, syn.singleline_comment_start)

\* prev_sep = is_separator(c); i++;
ScanAdvance(s) == [s EXCEPT !.prev_sep = is_separator(s.c), !.i = s.i + 1]

\* the rest of an iteration, from the string block on
ScanAfterSpecial(render, syn, s) ==
  IF StringTakes(syn, s)
  THEN StringPart(render, s)
  ELSE ScanAdvance(KeywordPart(render, syn, NumberPart(render, syn, s)))

\* an iteration once char c = row->render[i] is read
ScanAt(render, syn, s) ==
  IF LineCommentTakes(render, syn, s)
  THEN [Put(s, s.i, HL_COMMENT, Len(render) - s.i) EXCEPT !.brk = TRUE]
  ELSE IF BlockCommentTakes(render, syn, s)
  THEN BlockCommentPart(render, syn, s)
  ELSE ScanAfterSpecial(render, syn, SpecialPart(render, syn, s))

\* one iteration of while(i < row->rsize)
ScanStep(render, syn, s) == ScanAt(render, syn, [s EXCEPT !.c = CharAt(render, s.i)])

RECURSIVE ScanLoop(_, _, _)
ScanLoop(render, syn, s) ==
  IF s.i < Len(render) /\ ~s.brk THEN ScanLoop(render, syn, ScanStep(render, syn, s)) ELSE s

\* the scan of a row with render text render that starts with in_comment as given
Scan(render, syn, in_comment) ==
  ScanLoop(render, syn,
    [i |-> 0, c |-> NUL, prev_sep |-> TRUE, in_string |-> NUL,
     in_comment |-> in_comment, in_special |-> FALSE,
     hl |-> [j \in 1..Len(render) |-> HL_NORMAL],
     oob |-> {}, starts |-> {}, brk |-> FALSE])

-----------------------------------------------------------------------------
(* Rows.  An E_ROW is a record [idx, chars, render, hl, hl_open_comment];   *)
(* size and rsize are the lengths of chars and render.  E.syntax is NULL or *)
(* the filetype of the HLDB entry it points to.  The operators below take the E.row  *)
(* array (or the whole of E) and return it as the C function leaves it.     *)

Syntax(syntax) == HLDB[CHOOSE j \in 1..Len(HLDB) : HLDB[j].filetype = syntax]

\* row[at] with the hl and hl_open_comment that the scan s has found
WithScan(row, at, s) ==
  [row EXCEPT ![at + 1].hl = s.hl, ![at + 1].hl_open_comment = s.in_comment]

\* the end of editorUpdateSyntax(&row[at]) once the while loop has ended in state s
RECURSIVE editorUpdateSyntax(_, _, _, _)
Cascade(row, numrows, syntax, at, s) ==
  IF /\ row[at + 1].hl_open_comment # s.in_comment
     /\ row[at + 1].idx + 1 < numrows
  THEN editorUpdateSyntax(WithScan(row, at, s), numrows, syntax, row[at + 1].idx + 1)
  ELSE WithScan(row, at, s)

\* editorUpdateSyntax(&row[at]) while E.numrows is numrows
editorUpdateSyntax(row, numrows, syntax, at) ==
  IF syntax = NULL
  THEN [row EXCEPT ![at + 1].hl = [j \in 1..Len(row[at + 1].render) |-> HL_NORMAL]]
  ELSE Cascade(row, numrows, syntax, at,
         Scan(row[at + 1].render, Syntax(syntax),
              row[at + 1].idx > 0 /\ row[row[at + 1].idx].hl_open_comment))

\* editorUpdateRow(&row[at]) while E.numrows is numrows
editorUpdateRow(row, numrows, syntax, at) ==
  editorUpdateSyntax([row EXCEPT ![at + 1].render = RenderOf(row[at + 1].chars)],
                     numrows, syntax, at)

Spaces(n) == [j \in 1..n |-> SP]

editorInsertRowNoRenumber(e, at, s, leading_spaces) ==
  IF at < 0 \/ at > e.numrows THEN e
  ELSE LET new == [idx |-> at, chars |-> Spaces(leading_spaces) \o s,
                   render |-> <<>>, hl |-> <<>>, hl_open_comment |-> FALSE]
           moved == [j \in 1..(e.numrows + 1) |->
                       IF j <= at THEN e.row[j]
                       ELSE IF j = at + 1 THEN new
                       ELSE e.row[j - 1]]
       IN [e EXCEPT !.row = editorUpdateRow(moved, e.numrows, e.syntax, at),
                    !.numrows = e.numrows + 1,
                    !.row_num_offset = ndigits(e.numrows + 1),
                    !.dirty = e.dirty + 1]

editorInsertRow(e, at, s, leading_spaces) ==
  IF at < 0 \/ at > e.numrows THEN e
  ELSE LET new == [idx |-> at, chars |-> Spaces(leading_spaces) \o s,
                   render |-> <<>>, hl |-> <<>>, hl_open_comment |-> FALSE]
           moved == [j \in 1..(e.numrows + 1) |->
                       IF j <= at THEN e.row[j]
                       ELSE IF j = at + 1 THEN new
                       ELSE [e.row[j - 1] EXCEPT !.idx = @ + 1]]
       IN [e EXCEPT !.row = editorUpdateRow(moved, e.numrows, e.syntax, at),
                    !.numrows = e.numrows + 1,
                    !.row_num_offset = ndigits(e.numrows + 1),
                    !.dirty = e.dirty + 1]

editorDelRowNoRenumber(e, at) ==
  IF at < 0 \/ at >= e.numrows THEN e
  ELSE [e EXCEPT !.row = [j \in 1..(e.numrows - 1) |->
                            IF j <= at THEN e.row[j] ELSE e.row[j + 1]],
                 !.numrows = e.numrows - 1,
                 !.row_num_offset = ndigits(e.numrows - 1),
                 !.dirty = e.dirty + 1]

editorDelRow(e, at) ==
  IF at < 0 \/ at >= e.numrows THEN e
  ELSE [e EXCEPT !.row = [j \in 1..(e.numrows - 1) |->
                            IF j <= at THEN e.row[j]
                            ELSE [e.row[j + 1] EXCEPT !.idx = @ - 1]],
                 !.numrows = e.numrows - 1,
                 !.row_num_offset = ndigits(e.numrows - 1),
                 !.dirty = e.dirty + 1]

\* the sequence s with c inserted before 0-based position at
InsertAt(s, at, c) == SubSeq(s, 1, at) \o <<c>> \o SubSeq(s, at + 1, Len(s))

\* the sequence s without its element at 0-based position at
RemoveAt(s, at) == SubSeq(s, 1, at) \o SubSeq(s, at + 2, Len(s))

\* editorRowInsertChar(&E.row[y], at, c)
editorRowInsertCharKeepsDirty(e, y, at, c) ==
  LET size == Len(e.row[y + 1].chars)
      pos == IF at < 0 \/ at > size THEN size ELSE at
      row == [e.row EXCEPT ![y + 1].chars = InsertAt(@, pos, c)]
  IN [e EXCEPT !.row = editorUpdateRow(row, e.numrows, e.syntax, y)]

editorRowInsertChar(e, y, at, c) ==
  LET size == Len(e.row[y + 1].chars)
      pos == IF at < 0 \/ at > size THEN size ELSE at
      row == [e.row EXCEPT ![y + 1].chars = InsertAt(@, pos, c)]
  IN [e EXCEPT !.row = editorUpdateRow(row, e.numrows, e.syntax, y),
               !.dirty = e.dirty + 1]

\* editorRowAppendString(&E.row[y], s, len)
editorRowAppendStringButLast(e, y, s) ==
  LET row == [e.row EXCEPT ![y + 1].chars = @ \o SubSeq(s, 1, Len(s) - 1)]
  IN [e EXCEPT !.row = editorUpdateRow(row, e.numrows, e.syntax, y),
               !.dirty = e.dirty + 1]

editorRowAppendString(e, y, s) ==
  LET row == [e.row EXCEPT ![y + 1].chars = @ \o s]
  IN [e EXCEPT !.row = editorUpdateRow(row, e.numrows, e.syntax, y),
               !.dirty = e.dirty + 1]

\* editorRowDelChar(&E.row[y], at)
editorRowDelChar(e, y, at) ==
  IF at < 0 \/ at >= Len(e.row[y + 1].chars) THEN e
  ELSE LET row == [e.row EXCEPT ![y + 1].chars = RemoveAt(@, at)]
       IN [e EXCEPT !.row = editorUpdateRow(row, e.numrows, e.syntax, y),
                    !.dirty = e.dirty + 1]

-----------------------------------------------------------------------------
(* Editor operations *)

\* editorInsertChar(c)
CursorRight(e) == [e EXCEPT !.curr_x = e.curr_x + 1]

\* editorRowInsertChar(&E.row[E.curr_y], E.curr_x, c); E.curr_x++;
InsertAtCursor(e, c) == CursorRight(editorRowInsertChar(e, e.curr_y, e.curr_x, c))

editorInsertChar(e, c) ==
  IF e.curr_y = e.numrows
  THEN InsertAtCursor(editorInsertRow(e, e.numrows, <<>>, 0), c)
  ELSE InsertAtCursor(e, c)

\* getLeadingSpaces(at) for a row of the buffer, 0 <= at < E.numrows
RECURSIVE CountSpaces(_, _)
CountSpaces(render, count) ==
  IF CharAt(render, count) = SP THEN CountSpaces(render, count + 1) ELSE count

getLeadingSpaces(e, at) == CountSpaces(e.row[at + 1].render, 0)

\* row->size = E.curr_x; row->chars[row->size] = '\0'; editorUpdateRow(row);
TruncateRowStaleRender(e, y, x) ==
  [e EXCEPT !.row = [e.row EXCEPT ![y + 1].chars = SubSeq(@, 1, x)]]

TruncateRow(e, y, x) ==
  [e EXCEPT !.row = editorUpdateRow([e.row EXCEPT ![y + 1].chars = SubSeq(@, 1, x)],
                                    e.numrows, e.syntax, y)]

\* E.curr_y++; E.curr_x = leading_spaces;
CursorToNewLine(e, leading_spaces) ==
  [e EXCEPT !.curr_y = e.curr_y + 1, !.curr_x = leading_spaces]

\* editorInsertNewLine() once getLeadingSpaces has returned leading_spaces
editorInsertNewLine(e, leading_spaces) ==
  IF e.curr_x = 0
  THEN CursorToNewLine(editorInsertRow(e, e.curr_y, <<>>, leading_spaces), leading_spaces)
  ELSE CursorToNewLine(
         TruncateRow(
           editorInsertRow(e, e.curr_y + 1,
                           SubSeq(e.row[e.curr_y + 1].chars, e.curr_x + 1,
                                  Len(e.row[e.curr_y + 1].chars)),
                           leading_spaces),
           e.curr_y, e.curr_x),
         leading_spaces)

CursorUp(e) == [e EXCEPT !.curr_y = e.curr_y - 1]

\* editorDelChar()
editorDelChar(e) ==
  IF e.curr_y = e.numrows THEN e
  ELSE IF e.curr_y = 0 /\ e.curr_x = 0 THEN e
  ELSE IF e.curr_x > 0
  THEN [editorRowDelChar(e, e.curr_y, e.curr_x - 1) EXCEPT !.curr_x = e.curr_x - 1]
  ELSE CursorUp(
         editorDelRow(
           editorRowAppendString([e EXCEPT !.curr_x = Len(e.row[e.curr_y].chars)],
                                 e.curr_y - 1, e.row[e.curr_y + 1].chars),
           e.curr_y))

\* editorRowsToString(): the buffer it returns
RECURSIVE RowsToStringLoop(_, _)
RowsToStringLoop(row, j) ==
  IF j < Len(row) THEN row[j + 1].chars \o <<LF>> \o RowsToStringLoop(row, j + 1) ELSE <<>>

editorRowsToString(e) == RowsToStringLoop(SubSeq(e.row, 1, e.numrows), 0)

\* getline(): the lines of a stream, each with its terminating newline if it has one
RECURSIVE GetLines(_)
GetLines(text) ==
  IF text = <<>> THEN <<>>
  ELSE LET ends == {k \in 1..Len(text) : text[k] = LF}
           k == IF ends = {} THEN Len(text)
                ELSE CHOOSE m \in ends : \A n \in ends : m <= n
       IN <<SubSeq(text, 1, k)>> \o GetLines(SubSeq(text, k + 1, Len(text)))

\* while(linelen > 0 && (line[linelen - 1] == '\n' || line[linelen - 1] == '\r')) linelen--;
RECURSIVE StripEol(_)
StripEol(line) ==
  IF Len(line) > 0 /\ line[Len(line)] \in {LF, CR}
  THEN StripEol(SubSeq(line, 1, Len(line) - 1))
  ELSE line

\* strchr(name, '.'): the tail of name from its first '.', or NULL
ExtOf(name) ==
  LET dots == {k \in 1..Len(name) : name[k] = "."}
  IN IF dots = {} THEN NULL
     ELSE SubSeq(name, CHOOSE m \in dots : \A n \in dots : m <= n, Len(name))

\* strstr(name, pat) != NULL
Contains(name, pat) == \E k \in 0..Len(name) : StartsWith(name, k, pat)

\* the filematch test of editorSelectSyntaxHighlight
FileMatches(filename, pat) ==
  LET is_ext == pat[1] = "."
      ext == ExtOf(filename)
  IN \/ is_ext /\ ext # NULL /\ ext = pat
     \/ ~is_ext /\ Contains(filename, pat)

\* for(filerow = 0; filerow < E.numrows; filerow++) editorUpdateSyntax(&E.row[filerow]);
RECURSIVE RehighlightFrom(_, _, _, _)
RehighlightFromTopRowOnly(row, numrows, syntax, filerow) ==
  IF filerow < numrows
  THEN editorUpdateSyntax(row, numrows, syntax, filerow)
  ELSE row

RehighlightFrom(row, numrows, syntax, filerow) ==
  IF filerow < numrows
  THEN RehighlightFrom(editorUpdateSyntax(row, numrows, syntax, filerow),
                       numrows, syntax, filerow + 1)
  ELSE row

\* editorSelectSyntaxHighlight()
editorSelectSyntaxHighlight(e) ==
  IF e.filename = NULL THEN [e EXCEPT !.syntax = NULL]
  ELSE LET hits == {j \in 1..Len(HLDB) :
                      \E i \in 1..Len(HLDB[j].filematch) :
                         FileMatches(e.filename, HLDB[j].filematch[i])}
       IN IF hits = {} THEN [e EXCEPT !.syntax = NULL]
          ELSE LET j == CHOOSE m \in hits : \A n \in hits : m <= n
               IN [e EXCEPT !.syntax = HLDB[j].filetype,
                            !.row = RehighlightFrom(e.row, e.numrows, HLDB[j].filetype, 0)]

\* the getline loop of editorOpen over the lines that are left
RECURSIVE OpenLoop(_, _)
OpenLoop(e, lines) ==
  IF lines = <<>> THEN e
  ELSE OpenLoop(editorInsertRow(e, e.numrows, StripEol(Head(lines)), 0), Tail(lines))

\* editorUpdateRowOffset(); E.dirty = 0; at the end of editorOpen
OpenDone(e) == [e EXCEPT !.row_num_offset = ndigits(e.numrows), !.dirty = 0]

\* editorOpen(filename) on a file that holds text
editorOpen(e, filename, text) ==
  OpenDone(OpenLoop(editorSelectSyntaxHighlight([e EXCEPT !.filename = filename]),
                    GetLines(text)))

ARROW_LEFT == "ARROW_LEFT"
ARROW_RIGHT == "ARROW_RIGHT"
ARROW_UP == "ARROW_UP"
ARROW_DOWN == "ARROW_DOWN"

\* the length of the row the cursor is on, 0 past the last row
RowLen(e) == IF e.curr_y >= e.numrows THEN 0 ELSE Len(e.row[e.curr_y + 1].chars)

\* if(E.curr_x > rowlen) E.curr_x = rowlen;
ClampX(e) == IF e.curr_x > RowLen(e) THEN [e EXCEPT !.curr_x = RowLen(e)] ELSE e

\* the switch of editorMoveCursor(key)
MoveSwitch(e, key) ==
  LET onrow == e.curr_y < e.numrows
  IN    CASE key = ARROW_LEFT ->
                  IF e.curr_x # 0 THEN [e EXCEPT !.curr_x = e.curr_x - 1]
                  ELSE IF e.curr_y > 0
                  THEN [e EXCEPT !.curr_y = e.curr_y - 1,
                                 !.curr_x = Len(e.row[e.curr_y].chars)]
                  ELSE e
             [] key = ARROW_RIGHT ->
                  IF onrow /\ e.curr_x < RowLen(e) THEN [e EXCEPT !.curr_x = e.curr_x + 1]
                  ELSE IF onrow /\ e.curr_x = RowLen(e)
                  THEN [e EXCEPT !.curr_y = e.curr_y + 1, !.curr_x = 0]
                  ELSE e
             [] key = ARROW_UP ->
                  IF e.curr_y # 0 THEN [e EXCEPT !.curr_y = e.curr_y - 1] ELSE e
             [] key = ARROW_DOWN ->
                  IF e.curr_y < e.numrows THEN [e EXCEPT !.curr_y = e.curr_y + 1] ELSE e
             [] OTHER -> e

\* editorMoveCursor(key)
editorMoveCursor(e, key) == ClampX(MoveSwitch(e, key))

\* initEditor()
\* the fields of E that initEditor sets, with the window that updateWindowSize is yet to
\* read; statusmsg is the text of the status message
editorConfig ==
  [curr_x |-> 0, curr_y |-> 0, rowoff |-> 0, coloff |-> 0, render_x |-> 0,
   screenrows |-> 0, screencols |-> 0,
   numrows |-> 0, row |-> <<>>, row_num_offset |-> 0,
   dirty |-> 0, filename |-> NULL, statusmsg |-> "", syntax |-> NULL]

\* updateWindowSize() on a terminal of ws.ws_row rows and ws.ws_col columns
updateWindowSize(e, ws) ==
  [e EXCEPT !.screenrows = ws.ws_row - 2, !.screencols = ws.ws_col]

\* the terminal of the specifications that do not draw
DefaultWindow == [ws_row |-> 24, ws_col |-> 80]

initEditor == updateWindowSize(editorConfig, DefaultWindow)

\* the statics: quit_times of editorProcessKeypress; last_match, direction,
\* saved_hl_line and saved_hl of editorFindCallback
initStatics ==
  [quit_times |-> SHIM_QUIT_TIMES, last_match |-> -1, direction |-> 1,
   saved_hl_line |-> 0, saved_hl |-> NULL]

\* no call of editorFind, editorSave or editorPrompt is in progress
noCall == [fn |-> "main"]

\* no file has been written
noDisk == [name |-> NULL, text |-> <<>>]

noHist == [frames |-> 0, scrolled |-> FALSE, edits |-> 0, ret |-> "", moved |-> FALSE,
           quits |-> 0]

-----------------------------------------------------------------------------
(* Bounds and inputs of the editor specification *)

\* the handlers that edit the buffer are enabled while E.dirty is below this
MaxDirty == 2

\* the leading-space counts that getLeadingSpaces may return for the row past the end
MaxGarbage == 1

\* the bytes that can be typed: editorProcessKeypress sends them to editorInsertChar
Typed == {"/", "*", LF}

NameC == <<"a", ".", "c">>
NameTxt == <<"a">>

\* a file whose lines all end in a newline
RECURSIVE Text(_)
Text(lines) == IF lines = <<>> THEN <<>> ELSE Head(lines) \o <<LF>> \o Text(Tail(lines))

\* the files that can be opened: a name and the bytes of the file
Inputs ==
  { [name |-> NameC, text |-> Text(<< <<"/", "/", "*">>, <<"y">> >>)],
    [name |-> NameC, text |-> Text(<< <<"/", "*">>, <<TAB, "x">>, <<"*", "/">> >>)],
    [name |-> NameC, text |-> Text(<< <<"\"">>, <<"/", "*">>, <<SP, "y">> >>)],
    [name |-> NameTxt, text |-> <<"a", CR, "b", CR, LF, "c">>],
    [name |-> NameC, text |-> <<>>] }

\* the raw contents of the rows
Contents(e) == [j \in 1..e.numrows |-> e.row[j].chars]

mpIdle == [step |-> "idle"]

-----------------------------------------------------------------------------
(* The editor: main() and one action per key of editorProcessKeypress *)

InitOthers ==
  /\ statics = initStatics
  /\ call = noCall
  /\ disk = noDisk
  /\ hist = noHist

Init ==
  /\ E = initEditor
  /\ pc = "init"
  /\ saved = <<>>
  /\ mp = mpIdle
  /\ InitOthers

\* main() with argc < 2
StartNoFile ==
  /\ pc = "init"
  /\ pc' = "loop"
  /\ UNCHANGED <<E, saved, mp, others>>

\* main() with argc >= 2: editorOpen(argv[1])
StartOpen ==
  /\ pc = "init"
  /\ \E in \in Inputs : E' = editorOpen(E, in.name, in.text)
  /\ saved' = Contents(E')
  /\ pc' = "loop"
  /\ UNCHANGED <<mp, others>>

CanEdit == pc = "loop" /\ E.dirty < MaxDirty

\* default: editorInsertChar(c)
KeyChar ==
  /\ CanEdit
  /\ \E c \in Typed : E' = editorInsertChar(E, c)
  /\ UNCHANGED <<pc, saved, mp, others>>

\* case '\r' with the cursor on a row and inside it
KeyEnter ==
  /\ CanEdit
  /\ E.curr_y < E.numrows
  /\ E.curr_x <= RowLen(E)
  /\ E' = editorInsertNewLine(E, getLeadingSpaces(E, E.curr_y))
  /\ UNCHANGED <<pc, saved, mp, others>>

\* case '\r' with the cursor past the last row: getLeadingSpaces reads E.row[E.numrows],
\* which is past the array; when the read does not fault it returns some count
KeyEnterPastEnd ==
  /\ CanEdit
  /\ E.curr_y = E.numrows
  /\ E.numrows > 0
  /\ E.curr_x = 0
  /\ \E n \in 0..MaxGarbage : E' = editorInsertNewLine(E, n)
  /\ UNCHANGED <<pc, saved, mp, others>>

\* case '\r' where the handler faults: E.row[E.numrows] is read (E.row is NULL in the
\* empty buffer), or the cursor is right of the row's end and the split length is negative
KeyEnterFault ==
  /\ CanEdit
  /\ E.curr_y = E.numrows \/ E.curr_x > RowLen(E)
  /\ pc' = "crashed"
  /\ UNCHANGED <<E, saved, mp, others>>

\* case BACKSPACE, CTRL_KEY('h')
KeyBackspace ==
  /\ CanEdit
  /\ E' = editorDelChar(E)
  /\ UNCHANGED <<pc, saved, mp, others>>

\* case DEL_KEY
KeyDel ==
  /\ CanEdit
  /\ E' = editorDelChar(editorMoveCursor(E, ARROW_RIGHT))
  /\ UNCHANGED <<pc, saved, mp, others>>

\* case ARROW_UP, ARROW_DOWN, ARROW_LEFT, ARROW_RIGHT
KeyArrow ==
  /\ pc = "loop"
  /\ \E key \in {ARROW_LEFT, ARROW_RIGHT, ARROW_UP, ARROW_DOWN} :
       E' = editorMoveCursor(E, key)
  /\ UNCHANGED <<pc, saved, mp, others>>

\* case HOME_KEY
KeyHome ==
  /\ pc = "loop"
  /\ E' = [E EXCEPT !.curr_x = 0]
  /\ UNCHANGED <<pc, saved, mp, others>>

\* case END_KEY
KeyEnd ==
  /\ pc = "loop"
  /\ E' = IF E.curr_y < E.numrows THEN [E EXCEPT !.curr_x = RowLen(E)] ELSE E
  /\ UNCHANGED <<pc, saved, mp, others>>

Next ==
  \/ StartNoFile
  \/ StartOpen
  \/ KeyChar
  \/ KeyEnter
  \/ KeyEnterPastEnd
  \/ KeyEnterFault
  \/ KeyBackspace
  \/ KeyDel
  \/ KeyArrow
  \/ KeyHome
  \/ KeyEnd

Spec == Init /\ [][Next]_vars

-----------------------------------------------------------------------------
(* The screen: editorScroll and editorRefreshScreen, and the main loop with *)
(* its frames.  A state with pc = "loop" is main() waiting in               *)
(* editorReadKey: the frame of the iteration has been drawn.  Every action  *)
(* below is one key from that read to the next one, so it ends with the     *)
(* editorRefreshScreen of the next iteration.                               *)

PAGE_UP == "PAGE_UP"
PAGE_DOWN == "PAGE_DOWN"

\* the bytes that a read past the end of a row's chars may find
GarbageChars(n) == [1..n -> {TAB, NUL}]

\* the cursor is on a character of a row or at its end, or on the line after the last row
OnBuffer(e) ==
  /\ 0 <= e.curr_y /\ e.curr_y <= e.numrows
  /\ 0 <= e.curr_x
  /\ e.curr_x <= (IF e.curr_y < e.numrows THEN Len(e.row[e.curr_y + 1].chars) ELSE 0)

\* editorScroll reads E.row[E.curr_y].chars for a row in front of the array
ScrollFaults(e) == e.curr_y < 0 /\ e.curr_x > 0

\* the values that editorScroll can compute for E.render_x: editorRowCxtoRx reads
\* E.curr_x characters of the row, also when the row is shorter than that or is not a
\* row of the array
RenderXs(e) ==
  IF e.curr_y >= e.numrows \/ e.curr_x <= 0 THEN {0}
  ELSE IF e.curr_y < 0 THEN {editorRowCxtoRx(g, e.curr_x) : g \in GarbageChars(e.curr_x)}
  ELSE IF e.curr_x <= Len(e.row[e.curr_y + 1].chars)
  THEN {editorRowCxtoRx(e.row[e.curr_y + 1].chars, e.curr_x)}
  ELSE {editorRowCxtoRx(e.row[e.curr_y + 1].chars \o <<NUL>> \o g, e.curr_x) :
          g \in GarbageChars(e.curr_x - Len(e.row[e.curr_y + 1].chars) - 1)}

\* the four tests of editorScroll, one after the other
ScrollUp(e) == IF e.curr_y < e.rowoff THEN [e EXCEPT !.rowoff = e.curr_y] ELSE e

ScrollDown(e) ==
  IF e.curr_y >= e.rowoff + e.screenrows
  THEN [e EXCEPT !.rowoff = e.curr_y - e.screenrows + 1]
  ELSE e

ScrollLeft(e) == IF e.render_x < e.coloff THEN [e EXCEPT !.coloff = e.render_x] ELSE e

ScrollRight(e) ==
  IF e.render_x >= e.coloff - e.row_num_offset + e.screencols - 1
  THEN [e EXCEPT !.coloff = e.render_x - e.screencols + e.row_num_offset + 2]
  ELSE e

\* editorScroll() when editorRowCxtoRx returns render_x
editorScroll(e, render_x) ==
  ScrollRight(ScrollLeft(ScrollDown(ScrollUp([e EXCEPT !.render_x = render_x]))))

\* editorDrawRows reads E.row[filerow] for a row in front of the array
DrawFaults(e) == e.screenrows >= 1 /\ e.rowoff < 0

\* where the program is after editorDrawRows: a read in front of an array that exists
\* may find mapped memory, a read in front of the null array does not
DrawOutcomes(e, at) ==
  IF ~DrawFaults(e) THEN {at}
  ELSE IF e.numrows = 0 THEN {"crashed"}
  ELSE {"crashed", at}

\* editorRefreshScreen(): the states of E it can leave (drawing changes no field)
editorRefreshScreen(e) == {editorScroll(e, rx) : rx \in RenderXs(e)}

\* editorRefreshScreen() and then the wait of the loop that runs in state at, E being
\* e before it and h the history with this frame
Refresh(e, at, h) ==
  \/ /\ ScrollFaults(e)
     /\ E' = e
     /\ pc' = "crashed"
     /\ hist' = [hist EXCEPT !.scrolled = FALSE]
  \/ /\ ~ScrollFaults(e) \/ e.numrows > 0
     /\ E' \in editorRefreshScreen(e)
     /\ pc' \in DrawOutcomes(E', at)
     /\ hist' = [h EXCEPT !.scrolled = TRUE]

\* the end of a step of the loop that runs in state at: the key has been handled, E is
\* e, and the next iteration draws its frame and waits in editorReadKey
NextFrame(e, at) ==
  Refresh(e, at, [hist EXCEPT !.frames = 1, !.ret = "", !.moved = FALSE, !.quits = 0])

\* the same at the end of a step that has edited the buffer
NextFrameEdited(e, at) ==
  Refresh(e, at, [hist EXCEPT !.frames = 1, !.edits = @ + 1, !.ret = "", !.moved = FALSE,
                              !.quits = 0])

\* quit_times = SHIM_QUIT_TIMES; at the end of editorProcessKeypress
ResetQuitTimes == statics' = [statics EXCEPT !.quit_times = SHIM_QUIT_TIMES]

\* while(times--) editorMoveCursor(key); a negative times ends only after the counter
\* has wrapped, long after the cursor has stopped moving
RECURSIVE RepeatMove(_, _, _)
RepeatMove(e, key, times) ==
  IF times = 0 THEN e
  ELSE IF times < 0 THEN RepeatMove(e, key, e.numrows + 1)
  ELSE RepeatMove(editorMoveCursor(e, key), key, times - 1)

\* case PAGE_UP, PAGE_DOWN: where the cursor is put before it is moved
PageStart(e, key) ==
  IF key = PAGE_UP THEN [e EXCEPT !.curr_y = e.rowoff]
  ELSE IF e.rowoff + e.screenrows - 1 > e.numrows THEN [e EXCEPT !.curr_y = e.numrows]
  ELSE [e EXCEPT !.curr_y = e.rowoff + e.screenrows - 1]

\* the moves of PAGE_UP, PAGE_DOWN from the row that PageStart has chosen; no move is
\* made when E.screenrows is 0
PageMoves(e, key) ==
  IF e.screenrows = 0 THEN e
  ELSE RepeatMove(e, IF key = PAGE_UP THEN ARROW_UP ELSE ARROW_DOWN, e.screenrows)

\* the moves read E.row[E.curr_y] for a row in front of the array
PageFaults(e) == e.curr_y < 0 /\ e.screenrows # 0

\* the sizes of the terminal, at the start and after a change
Windows ==
  { [ws_row |-> 1, ws_col |-> 1], [ws_row |-> 2, ws_col |-> 6],
    [ws_row |-> 3, ws_col |-> 4], [ws_row |-> 4, ws_col |-> 6] }

\* the files that are opened in front of the screen
ScreenInputs ==
  { [name |-> NameC, text |-> Text(<< <<"a", TAB, "b">>, <<"b">>, <<"/", "*">> >>)],
    [name |-> NameTxt, text |-> Text(<< <<"b", "a", "b">>, <<"a">> >>)] }

\* the edits that are made in front of the screen are limited to this many
MaxScreenEdits == 1

\* the cursor is followed this many rows off the buffer, and no further
MaxOff == 2

CanEditScreen == pc = "loop" /\ OnBuffer(E) /\ hist.edits < MaxScreenEdits

InitScreen ==
  /\ \E ws \in Windows : E = updateWindowSize(editorConfig, ws)
  /\ pc = "init"
  /\ saved = <<>>
  /\ mp = mpIdle
  /\ InitOthers

\* main() with argc < 2, up to the first editorReadKey
ScreenStartNoFile ==
  /\ pc = "init"
  /\ NextFrame([E EXCEPT !.statusmsg = "HELP"], "loop")
  /\ UNCHANGED <<saved, mp, statics, call, disk>>

\* main() with argc >= 2, up to the first editorReadKey
ScreenStartOpen ==
  /\ pc = "init"
  /\ \E in \in ScreenInputs :
       /\ NextFrame([editorOpen(E, in.name, in.text) EXCEPT !.statusmsg = "HELP"], "loop")
       /\ disk' = [name |-> in.name, text |-> in.text]
  /\ saved' = Contents(E')
  /\ UNCHANGED <<mp, statics, call>>

\* case ARROW_UP, ARROW_DOWN, ARROW_LEFT, ARROW_RIGHT
PressArrow ==
  /\ pc = "loop"
  /\ OnBuffer(E)
  /\ \E key \in {ARROW_LEFT, ARROW_RIGHT, ARROW_UP, ARROW_DOWN} :
       NextFrame(editorMoveCursor(E, key), "loop")
  /\ ResetQuitTimes
  /\ UNCHANGED <<saved, mp, call, disk>>

\* case HOME_KEY
PressHome ==
  /\ pc = "loop"
  /\ NextFrame([E EXCEPT !.curr_x = 0], "loop")
  /\ ResetQuitTimes
  /\ UNCHANGED <<saved, mp, call, disk>>

\* case END_KEY
PressEnd ==
  /\ pc = "loop"
  /\ OnBuffer(E)
  /\ NextFrame(IF E.curr_y < E.numrows THEN [E EXCEPT !.curr_x = RowLen(E)] ELSE E, "loop")
  /\ ResetQuitTimes
  /\ UNCHANGED <<saved, mp, call, disk>>

\* case PAGE_UP, PAGE_DOWN
PressPage ==
  /\ pc = "loop"
  /\ \E key \in {PAGE_UP, PAGE_DOWN} :
       /\ ~PageFaults(PageStart(E, key))
       /\ PageStart(E, key).curr_y >= -MaxOff
       /\ PageStart(E, key).curr_y <= E.numrows + MaxOff
       /\ NextFrame(PageMoves(PageStart(E, key), key), "loop")
  /\ ResetQuitTimes
  /\ UNCHANGED <<saved, mp, call, disk>>

\* case PAGE_UP, PAGE_DOWN where the cursor is put in front of the first row and then
\* moved, or where times is negative and times-- overflows; and any key whose handler
\* reads E.row[E.curr_y].chars at E.curr_x while the cursor is off the buffer
PressOffBuffer ==
  /\ pc = "loop"
  /\ \/ ~OnBuffer(E)
     \/ \E key \in {PAGE_UP, PAGE_DOWN} : PageFaults(PageStart(E, key))
     \/ E.screenrows < 0
  /\ pc' = "crashed"
  /\ UNCHANGED <<E, saved, mp, others>>

\* default: editorInsertChar(c)
PressChar ==
  /\ CanEditScreen
  /\ \E c \in {"a", "*"} : NextFrameEdited(editorInsertChar(E, c), "loop")
  /\ ResetQuitTimes
  /\ UNCHANGED <<saved, mp, call, disk>>

\* case '\r' with the cursor on a row and inside it
PressEnter ==
  /\ CanEditScreen
  /\ E.curr_y < E.numrows
  /\ E.curr_x <= RowLen(E)
  /\ NextFrameEdited(editorInsertNewLine(E, getLeadingSpaces(E, E.curr_y)), "loop")
  /\ ResetQuitTimes
  /\ UNCHANGED <<saved, mp, call, disk>>

\* case BACKSPACE, CTRL_KEY('h')
PressBackspace ==
  /\ CanEditScreen
  /\ NextFrameEdited(editorDelChar(E), "loop")
  /\ ResetQuitTimes
  /\ UNCHANGED <<saved, mp, call, disk>>

\* case DEL_KEY
PressDel ==
  /\ CanEditScreen
  /\ NextFrameEdited(editorDelChar(editorMoveCursor(E, ARROW_RIGHT)), "loop")
  /\ ResetQuitTimes
  /\ UNCHANGED <<saved, mp, call, disk>>

\* what open, ftruncate and write of editorSave can do
SaveOutcomes == {"open fails", "ftruncate fails", "write fails", "written"}

\* the bytes of the file E.filename when editorSave opens it
OldText(d, e) == IF d.name = e.filename THEN d.text ELSE <<>>

\* the file after ftruncate(fd, len) and a write that has put the first k bytes of buf
FileWritten(old, buf, k) ==
  [i \in 1..Len(buf) |-> IF i <= k THEN buf[i] ELSE IF i <= Len(old) THEN old[i] ELSE NUL]

\* the numbers of bytes that a write of len bytes can put when it does not put them all
ShortWrites(len) == {k \in {0, len - 1} : 0 <= k /\ k < len}

\* the files that the open, ftruncate and write of editorSave can leave
DiskAfter(d, e, io) ==
  IF io = "open fails" THEN {d}
  ELSE IF io = "ftruncate fails" THEN {[name |-> e.filename, text |-> OldText(d, e)]}
  ELSE IF io = "written" THEN {[name |-> e.filename, text |-> editorRowsToString(e)]}
  ELSE {[name |-> e.filename, text |-> FileWritten(OldText(d, e), editorRowsToString(e), k)] :
          k \in ShortWrites(Len(editorRowsToString(e)))}

\* editorSave() from int len; on, for a buffer that has a name
WriteOut(e, io) ==
  IF io = "written"
  THEN [e EXCEPT !.dirty = 0, !.statusmsg = "bytes written to disk"]
  ELSE [e EXCEPT !.statusmsg = "Can't save! I/O error"]

\* case CTRL_KEY('s') with a file name, and the file is written
PressSave ==
  /\ pc = "loop"
  /\ E.filename # NULL
  /\ NextFrame(WriteOut(E, "written"), "loop")
  /\ disk' \in DiskAfter(disk, E, "written")
  /\ ResetQuitTimes
  /\ UNCHANGED <<saved, mp, call>>

\* case CTRL_KEY('s') with a file name, and open, ftruncate or write fails
PressSaveFails ==
  /\ pc = "loop"
  /\ E.filename # NULL
  /\ \E io \in SaveOutcomes \ {"written"} :
       /\ NextFrame(WriteOut(E, io), "loop")
       /\ disk' \in DiskAfter(disk, E, io)
  /\ ResetQuitTimes
  /\ UNCHANGED <<saved, mp, call>>

\* the characters that are typed at a prompt, and the most that are typed
PromptTyped == {".", "c"}

MaxPrompt == 2

\* editorPrompt(): E when the prompt is set in the status bar
editorPrompt(e, prompt) == [e EXCEPT !.statusmsg = prompt]

\* case CTRL_KEY('s') without a file name: editorPrompt("Save as: %s (ESC to cancel)")
\* up to its first editorReadKey
PressSaveAs ==
  /\ pc = "loop"
  /\ E.filename = NULL
  /\ NextFrame(editorPrompt(E, "Save as"), "saveas")
  /\ call' = [fn |-> "editorSave", buf |-> <<>>]
  /\ UNCHANGED <<saved, mp, statics, disk>>

\* editorPrompt of editorSave: a printable character
SaveAsType ==
  /\ pc = "saveas"
  /\ Len(call.buf) < MaxPrompt
  /\ \E c \in PromptTyped : call' = [call EXCEPT !.buf = Append(call.buf, c)]
  /\ NextFrame(editorPrompt(E, "Save as"), "saveas")
  /\ UNCHANGED <<saved, mp, statics, disk>>

\* editorPrompt of editorSave: DEL_KEY, CTRL_KEY('h'), BACKSPACE; or '\r' with nothing typed
SaveAsErase ==
  /\ pc = "saveas"
  /\ \/ call.buf # <<>> /\ call' = [call EXCEPT !.buf = SubSeq(call.buf, 1, Len(call.buf) - 1)]
     \/ call' = call
  /\ NextFrame(editorPrompt(E, "Save as"), "saveas")
  /\ UNCHANGED <<saved, mp, statics, disk>>

\* editorPrompt of editorSave: '\x1b'; editorSave sets "Save aborted" and returns
SaveAsCancel ==
  /\ pc = "saveas"
  /\ NextFrame([E EXCEPT !.statusmsg = "Save aborted"], "loop")
  /\ call' = noCall
  /\ ResetQuitTimes
  /\ UNCHANGED <<saved, mp, disk>>

\* E.filename = editorPrompt(...); editorSelectSyntaxHighlight();
NameBuffer(e, name) == editorSelectSyntaxHighlight([e EXCEPT !.filename = name, !.statusmsg = ""])

\* editorPrompt of editorSave: '\r' after a name, and the file is written
SaveAsEnter ==
  /\ pc = "saveas"
  /\ call.buf # <<>>
  /\ NextFrame(WriteOut(NameBuffer(E, call.buf), "written"), "loop")
  /\ disk' \in DiskAfter(disk, NameBuffer(E, call.buf), "written")
  /\ call' = noCall
  /\ ResetQuitTimes
  /\ UNCHANGED <<saved, mp>>

\* editorPrompt of editorSave: '\r' after a name, and open, ftruncate or write fails
SaveAsEnterFails ==
  /\ pc = "saveas"
  /\ call.buf # <<>>
  /\ \E io \in SaveOutcomes \ {"written"} :
       /\ NextFrame(WriteOut(NameBuffer(E, call.buf), io), "loop")
       /\ disk' \in DiskAfter(disk, NameBuffer(E, call.buf), io)
  /\ call' = noCall
  /\ ResetQuitTimes
  /\ UNCHANGED <<saved, mp>>

\* handleSigWinCh() up to its editorRefreshScreen(), the terminal having the size ws
handleSigWinCh(e, ws) ==
  LET u == updateWindowSize(e, ws)
      y == IF u.curr_y > u.screenrows + u.rowoff - 1
           THEN u.screenrows + u.rowoff - 1 ELSE u.curr_y
      x == IF u.curr_x > u.screencols + u.coloff - (u.row_num_offset + 1) - 1
           THEN u.screencols + u.coloff - (u.row_num_offset + 1) - 1 ELSE u.curr_x
  IN  [u EXCEPT !.curr_y = y, !.curr_x = x]

\* the frames of one wait for a key are counted up to this many
MaxFrames == 2

\* SIGWINCH while the main loop or a prompt waits in editorReadKey: the handler runs and
\* draws a frame of its own, and the read goes on
Resize ==
  /\ pc \in {"loop", "saveas"}
  /\ hist.frames < MaxFrames
  /\ \E ws \in Windows :
       /\ handleSigWinCh(E, ws).curr_y >= -MaxOff
       /\ handleSigWinCh(E, ws).curr_x >= -MaxOff
       /\ Refresh(handleSigWinCh(E, ws), pc, [hist EXCEPT !.frames = @ + 1])
  /\ UNCHANGED <<saved, mp, statics, call, disk>>

\* the editor in a terminal that keeps its size
NextKeys ==
  \/ ScreenStartNoFile
  \/ ScreenStartOpen
  \/ PressArrow
  \/ PressHome
  \/ PressEnd
  \/ PressPage
  \/ PressOffBuffer
  \/ PressChar
  \/ PressEnter
  \/ PressBackspace
  \/ PressDel

SpecKeys == InitScreen /\ [][NextKeys]_vars

\* the editor in a terminal that changes its size
NextScreen == NextKeys \/ Resize

SpecScreen == InitScreen /\ [][NextScreen]_vars

\* the editor in a terminal of 24 rows and 80 columns, with the keys that edit and save
NextSave ==
  \/ ScreenStartNoFile
  \/ ScreenStartOpen
  \/ PressArrow
  \/ PressChar
  \/ PressBackspace
  \/ PressSave
  \/ PressSaveFails
  \/ PressSaveAs
  \/ SaveAsType
  \/ SaveAsErase
  \/ SaveAsCancel
  \/ SaveAsEnter
  \/ SaveAsEnterFails

SpecSave == Init /\ [][NextSave]_vars

-----------------------------------------------------------------------------
(* Incremental search: editorFind, its editorPrompt and editorFindCallback.   *)
(* A state with pc = "find" is the prompt waiting in editorReadKey.           *)

\* memcpy(dst, src, n), for the cells that lie inside dst
MemCpy(dst, src, n) == [j \in 1..Len(dst) |-> IF j <= n THEN src[j] ELSE dst[j]]

\* a char array as a C string: the characters in front of the first NUL
CStr(a) ==
  LET ends == {k \in 1..Len(a) : a[k] = NUL}
  IN IF ends = {} THEN a ELSE SubSeq(a, 1, (CHOOSE m \in ends : \A n \in ends : m <= n) - 1)

\* strstr(haystack, needle) - haystack, and -1 for NULL
StrStr(haystack, needle) ==
  LET hits == {k \in 0..(Len(CStr(haystack)) - Len(needle)) :
                 StartsWith(CStr(haystack), k, needle)}
  IN IF hits = {} THEN -1 ELSE CHOOSE m \in hits : \A n \in hits : m <= n

FindRestoreNothing(e, st) == e

\* if(saved_hl) { memcpy(E.row[saved_hl_line].hl, saved_hl, E.row[saved_hl_line].rsize); }
\* (a saved highlight of no bytes is written as NULL: its memcpy copies nothing)
FindRestore(e, st) ==
  IF st.saved_hl = NULL THEN e
  ELSE [e EXCEPT !.row[st.saved_hl_line + 1].hl =
                   MemCpy(@, st.saved_hl, Len(e.row[st.saved_hl_line + 1].render))]

\* the keys as editorFindCallback tells them apart: "leave" is '\r' or '\x1b', "fwd" is
\* ARROW_RIGHT or ARROW_DOWN, "bwd" is ARROW_LEFT or ARROW_UP, "other" any other key
FindKeys == {"leave", "fwd", "bwd", "other"}

FindDirectionKeepsLastMatch(st, key) ==
  IF key = "fwd" THEN [st EXCEPT !.direction = 1]
  ELSE IF key = "bwd" THEN [st EXCEPT !.direction = -1]
  ELSE [st EXCEPT !.direction = 1]

\* the else-if chain on key, for a key that does not leave
FindDirection(st, key) ==
  IF key = "fwd" THEN [st EXCEPT !.direction = 1]
  ELSE IF key = "bwd" THEN [st EXCEPT !.direction = -1]
  ELSE [st EXCEPT !.last_match = -1, !.direction = 1]

\* if(last_match == -1) direction = 1;
FindForward(st) == IF st.last_match = -1 THEN [st EXCEPT !.direction = 1] ELSE st

WrapToTop(current_row, numrows) ==
  IF current_row = -1 THEN 0
  ELSE IF current_row = numrows THEN 0
  ELSE current_row

\* the wrap around of current_row
Wrap(current_row, numrows) ==
  IF current_row = -1 THEN numrows - 1
  ELSE IF current_row = numrows THEN 0
  ELSE current_row

FindHitKeepsRowOffset(e, st, query, current_row, at) ==
  [e |-> [e EXCEPT !.curr_y = current_row,
                   !.curr_x = editorRowRxtoCx(e.row[current_row + 1].chars, at),
                   !.row[current_row + 1].hl = MemSet(@, at, HL_MATCH, Len(query))],
   st |-> [st EXCEPT !.last_match = current_row,
                     !.saved_hl_line = current_row,
                     !.saved_hl = e.row[current_row + 1].hl]]

\* if(match) { ... break; } with match - row->render = at
FindHit(e, st, query, current_row, at) ==
  [e |-> [e EXCEPT !.curr_y = current_row,
                   !.curr_x = editorRowRxtoCx(e.row[current_row + 1].chars, at),
                   !.rowoff = e.numrows,
                   !.row[current_row + 1].hl = MemSet(@, at, HL_MATCH, Len(query))],
   st |-> [st EXCEPT !.last_match = current_row,
                     !.saved_hl_line = current_row,
                     !.saved_hl = e.row[current_row + 1].hl]]

\* for(i = 0; i < E.numrows; i++) from the row after current_row
RECURSIVE FindLoop(_, _, _, _, _)
FindAt(e, st, query, current_row, i) ==
  IF StrStr(e.row[current_row + 1].render, query) = -1
  THEN FindLoop(e, st, query, current_row, i + 1)
  ELSE FindHit(e, st, query, current_row, StrStr(e.row[current_row + 1].render, query))

FindLoop(e, st, query, current_row, i) ==
  IF i < e.numrows
  THEN FindAt(e, st, query, Wrap(current_row + st.direction, e.numrows), i)
  ELSE [e |-> e, st |-> st]

\* int current_row = last_match; and the loop
FindScan(e, st, query) == FindLoop(e, st, query, st.last_match, 0)

\* editorFindCallback(query, key): E and the statics it leaves
editorFindCallback(e, st, query, key) ==
  IF key = "leave"
  THEN [e |-> FindRestore(e, st),
        st |-> [st EXCEPT !.saved_hl = NULL, !.last_match = -1, !.direction = 1]]
  ELSE FindScan(FindRestore(e, st),
                FindForward(FindDirection([st EXCEPT !.saved_hl = NULL], key)),
                query)

\* the characters that are typed at the search prompt
FindTyped == {"a", "b"}

\* the terminal of the searches
FindWindow == [ws_row |-> 4, ws_col |-> 6]

InitFind ==
  /\ E = updateWindowSize(editorConfig, FindWindow)
  /\ pc = "init"
  /\ saved = <<>>
  /\ mp = mpIdle
  /\ InitOthers

\* the locals of editorFind, and E as it was when editorFind was called
editorFindLocals(e) ==
  [fn |-> "editorFind", buf |-> <<>>,
   saved_curr_x |-> e.curr_x, saved_curr_y |-> e.curr_y,
   saved_coloff |-> e.coloff, saved_rowoff |-> e.rowoff,
   before |-> e]

\* the search was cancelled, restore the cursor position
RestoreCursorOnly(e, c) ==
  [e EXCEPT !.curr_x = c.saved_curr_x, !.curr_y = c.saved_curr_y]

RestoreCursor(e, c) ==
  [e EXCEPT !.curr_x = c.saved_curr_x, !.curr_y = c.saved_curr_y,
            !.coloff = c.saved_coloff, !.rowoff = c.saved_rowoff]

\* the end of an iteration of the search prompt: the callback has left r
FindStep(r, at) ==
  /\ NextFrame(editorPrompt(r.e, "Search"), at)
  /\ statics' = r.st

\* case CTRL_KEY('f'): editorFind() up to the first editorReadKey of its prompt
PressFind ==
  /\ pc = "loop"
  /\ OnBuffer(E)
  /\ NextFrame(editorPrompt(E, "Search"), "find")
  /\ call' = editorFindLocals(E)
  /\ UNCHANGED <<saved, mp, statics, disk>>

\* editorPrompt of editorFind: a printable character
FindType ==
  /\ pc = "find"
  /\ Len(call.buf) < MaxPrompt
  /\ \E c \in FindTyped :
       /\ call' = [call EXCEPT !.buf = Append(call.buf, c)]
       /\ FindStep(editorFindCallback(E, statics, Append(call.buf, c), "other"), "find")
  /\ UNCHANGED <<saved, mp, disk>>

\* editorPrompt of editorFind: DEL_KEY, CTRL_KEY('h'), BACKSPACE
FindErase ==
  /\ pc = "find"
  /\ call.buf # <<>>
  /\ call' = [call EXCEPT !.buf = SubSeq(call.buf, 1, Len(call.buf) - 1)]
  /\ FindStep(editorFindCallback(E, statics, SubSeq(call.buf, 1, Len(call.buf) - 1), "other"),
              "find")
  /\ UNCHANGED <<saved, mp, disk>>

\* editorPrompt of editorFind: ARROW_RIGHT, ARROW_DOWN
FindNext ==
  /\ pc = "find"
  /\ FindStep(editorFindCallback(E, statics, call.buf, "fwd"), "find")
  /\ UNCHANGED <<saved, mp, call, disk>>

\* editorPrompt of editorFind: ARROW_LEFT, ARROW_UP
FindPrev ==
  /\ pc = "find"
  /\ FindStep(editorFindCallback(E, statics, call.buf, "bwd"), "find")
  /\ UNCHANGED <<saved, mp, call, disk>>

\* editorPrompt of editorFind: a key that the prompt ignores, such as HOME_KEY
FindOtherKey ==
  /\ pc = "find"
  /\ FindStep(editorFindCallback(E, statics, call.buf, "other"), "find")
  /\ UNCHANGED <<saved, mp, call, disk>>

\* editorPrompt of editorFind: '\r' with nothing typed; the prompt goes on
FindEnterEmpty ==
  /\ pc = "find"
  /\ call.buf = <<>>
  /\ FindStep(editorFindCallback(E, statics, call.buf, "leave"), "find")
  /\ UNCHANGED <<saved, mp, call, disk>>

\* what is left when editorFind has returned to editorProcessKeypress; ret is what its
\* editorPrompt has returned, and moved tells that the search had moved the view
FindDone(r, ret, moved) ==
  /\ Refresh([r.e EXCEPT !.statusmsg = ""], "loop",
             [hist EXCEPT !.frames = 1, !.ret = ret, !.moved = moved, !.quits = 0])
  /\ statics' = [r.st EXCEPT !.quit_times = SHIM_QUIT_TIMES]
  /\ call' = noCall

\* the cursor and the offsets of the view
View(e) == <<e.curr_x, e.curr_y, e.rowoff, e.coloff>>

\* editorPrompt of editorFind: '\r' after a query
FindEnter ==
  /\ pc = "find"
  /\ call.buf # <<>>
  /\ FindDone(editorFindCallback(E, statics, call.buf, "leave"), "query",
              View(E) # View(call.before))
  /\ UNCHANGED <<saved, mp, disk>>

\* the callback's result with the cursor that editorFind restores
Cancelled(r, c) == [e |-> RestoreCursor(r.e, c), st |-> r.st]

\* editorPrompt of editorFind: '\x1b'
FindCancel ==
  /\ pc = "find"
  /\ FindDone(Cancelled(editorFindCallback(E, statics, call.buf, "leave"), call), "NULL",
              View(E) # View(call.before))
  /\ UNCHANGED <<saved, mp, disk>>

\* the editor with the keys that move, type and search
NextFind ==
  \/ ScreenStartNoFile
  \/ ScreenStartOpen
  \/ PressArrow
  \/ PressChar
  \/ PressFind
  \/ FindType
  \/ FindErase
  \/ FindNext
  \/ FindPrev
  \/ FindOtherKey
  \/ FindEnterEmpty
  \/ FindEnter
  \/ FindCancel

SpecFind == InitFind /\ [][NextFind]_vars

-----------------------------------------------------------------------------
(* The row operations on their own: besides the keys, editorInsertRow and   *)
(* editorDelRow are applied at every position of the buffer.                *)

\* the contents that editorInsertRow is given
RowContents == {<<>>, <<"/", "*">>, <<TAB, "x">>}

\* a buffer is loaded as main() loads it, and the row operations are applied to it
StartRows ==
  /\ pc = "init"
  /\ \E in \in Inputs : E' = editorOpen(E, in.name, in.text)
  /\ saved' = Contents(E')
  /\ pc' = "rows"
  /\ UNCHANGED <<mp, others>>

CanEditRows == pc = "rows" /\ E.dirty < MaxDirty

\* editorInsertRow(at, s, len, 0) for any at in 0..E.numrows
RowInsert ==
  /\ CanEditRows
  /\ \E at \in 0..E.numrows : \E s \in RowContents :
       /\ E' = editorInsertRow(E, at, s, 0)
       /\ mp' = [step |-> "inserted", at |-> at, before |-> E]
  /\ UNCHANGED <<pc, saved, others>>

\* editorDelRow(at) of the row that editorInsertRow(at, ...) has just inserted
RowDelete ==
  /\ pc = "rows"
  /\ mp.step = "inserted"
  /\ E' = editorDelRow(E, mp.at)
  /\ mp' = [mp EXCEPT !.step = "deleted"]
  /\ UNCHANGED <<pc, saved, others>>

\* editorDelRow(at) for any row of the buffer
RowDeleteAny ==
  /\ CanEditRows
  /\ \E at \in 0..(E.numrows - 1) : E' = editorDelRow(E, at)
  /\ mp' = mpIdle
  /\ UNCHANGED <<pc, saved, others>>

NextRows ==
  \/ Next
  \/ StartRows
  \/ RowInsert
  \/ RowDelete
  \/ RowDeleteAny

SpecRows == Init /\ [][NextRows]_vars

-----------------------------------------------------------------------------
(* Loading on its own: main() opens a C file made of a few lines.           *)

\* the most lines a loaded file has
MaxLoadRows == 3

LoadLines ==
  { <<"/", "*">>, <<"*", "/">>, <<"x">>, <<"*", "/", "/", "*">>, <<"/", "/", "*">>,
    <<"\"", "/", "*">>, <<"/", "*", "/">>, <<"/", "*", "*", "/">> }

LoadFiles == UNION {[1..k -> LoadLines] : k \in 0..MaxLoadRows}

\* main() with argc >= 2: editorOpen(argv[1]) on a file named a.c
LoadFile ==
  /\ pc = "init"
  /\ \E lines \in LoadFiles : E' = editorOpen(E, NameC, Text(lines))
  /\ saved' = Contents(E')
  /\ pc' = "loaded"
  /\ UNCHANGED <<mp, others>>

NextLoad == LoadFile

SpecLoad == Init /\ [][NextLoad]_vars

-----------------------------------------------------------------------------
(* The index mapper on its own: a row and a raw offset are drawn, then      *)
(* editorRowCxtoRx, editorRowRxtoCx and the render loop of editorUpdateRow  *)
(* are applied to them.                                                     *)

\* the longest row the mapper is applied to
MaxMapLen == 4

MapperAlphabet == {TAB, "f", "o"}

MapperRows == UNION {[1..k -> MapperAlphabet] : k \in 0..MaxMapLen}

InitMapper ==
  /\ E = initEditor
  /\ pc = "init"
  /\ saved = <<>>
  /\ InitOthers
  /\ \E chars \in MapperRows : \E x \in 0..Len(chars) :
       mp = [step |-> "input", chars |-> chars, x |-> x, rx |-> 0, cx |-> 0,
             render |-> <<>>, prefix_render |-> <<>>]

\* rx = editorRowCxtoRx(row, x)
MapCxtoRx ==
  /\ mp.step = "input"
  /\ mp' = [mp EXCEPT !.step = "rx", !.rx = editorRowCxtoRx(mp.chars, mp.x)]
  /\ UNCHANGED <<E, pc, saved, others>>

\* cx = editorRowRxtoCx(row, rx)
MapRxtoCx ==
  /\ mp.step = "rx"
  /\ mp' = [mp EXCEPT !.step = "cx", !.cx = editorRowRxtoCx(mp.chars, mp.rx)]
  /\ UNCHANGED <<E, pc, saved, others>>

\* editorUpdateRow on the row and on a row that holds its first x characters
MapUpdateRow ==
  /\ mp.step = "cx"
  /\ mp' = [mp EXCEPT !.step = "done",
                      !.render = RenderOf(mp.chars),
                      !.prefix_render = RenderOf(SubSeq(mp.chars, 1, mp.x))]
  /\ UNCHANGED <<E, pc, saved, others>>

NextMapper ==
  \/ MapCxtoRx
  \/ MapRxtoCx
  \/ MapUpdateRow

SpecMapper == InitMapper /\ [][NextMapper]_vars

(***************************************************************************)
(* SIGWINCH inside a key's handler.  initEditor installs handleSigWinCh    *)
(* with signal(), so the handler runs wherever the program is when the      *)
(* signal arrives.  The Enter key is followed through editorInsertNewLine   *)
(* and editorInsertRow statement group by statement group; between the      *)
(* groups E.row has E.numrows + 1 elements while E.numrows is still the old *)
(* count.  call holds the arguments of editorInsertRow, the place reached,  *)
(* and E as it was when the key was read.                                   *)
(***************************************************************************)

\* the terminal sizes that a resize leads to while a key is handled
SignalWindows == { [ws_row |-> 3, ws_col |-> 4], [ws_row |-> 4, ws_col |-> 6] }

InitSignal ==
  /\ \E ws \in SignalWindows : E = updateWindowSize(editorConfig, ws)
  /\ pc = "init"
  /\ saved = <<>>
  /\ mp = mpIdle
  /\ InitOthers

\* the element that realloc adds behind the array; nothing reads it before it is set
FreshSlot == [idx |-> 0, chars |-> <<>>, render |-> <<>>, hl |-> <<>>,
              hl_open_comment |-> FALSE]

\* E.row after realloc, memmove and the idx++ loop: row[at] still holds what it held
MemMoved(e, at) ==
  [j \in 1..(e.numrows + 1) |->
     IF j <= at THEN e.row[j]
     ELSE IF j = at + 1 THEN (IF at < e.numrows THEN e.row[j] ELSE FreshSlot)
     ELSE [e.row[j - 1] EXCEPT !.idx = @ + 1]]

\* E.row[at] once its fields are set and before editorUpdateRow
BuiltRow(at, s, leading_spaces) ==
  [idx |-> at, chars |-> Spaces(leading_spaces) \o s,
   render |-> <<>>, hl |-> <<>>, hl_open_comment |-> FALSE]

\* the arguments of the editorInsertRow call of editorInsertNewLine
NewLineAt(e) == IF e.curr_x = 0 THEN e.curr_y ELSE e.curr_y + 1

NewLineText(e) ==
  IF e.curr_x = 0 THEN <<>>
  ELSE SubSeq(e.row[e.curr_y + 1].chars, e.curr_x + 1, Len(e.row[e.curr_y + 1].chars))

\* the number of bytes of row filerow that editorDrawRows puts on the screen
DrawnLen(e, filerow) ==
  LET len == Len(e.row[filerow + 1].render) - e.coloff
      cut == IF len < 0 THEN 0 ELSE len
  IN  IF cut > e.screencols - (e.row_num_offset + 1)
      THEN e.screencols - e.row_num_offset - 2 ELSE cut

\* editorDrawRows reads hl[j] of a row on the screen whose hl is still NULL
DrawReadsNullHl(e) ==
  \E filerow \in 0..(e.numrows - 1) :
    /\ e.rowoff <= filerow /\ filerow < e.rowoff + e.screenrows
    /\ Len(e.row[filerow + 1].hl) = 0
    /\ Len(e.row[filerow + 1].render) > 0
    /\ DrawnLen(e, filerow) > 0

\* what editorDrawRows puts on the screen of each row of the buffer
Projected(e) ==
  [j \in 1..e.numrows |-> [render |-> e.row[j].render, hl |-> e.row[j].hl]]

\* case '\r' up to the memmove of editorInsertRow (706-716, 617-621)
EnterMemmove ==
  /\ CanEditScreen
  /\ E.curr_y < E.numrows
  /\ E' = [E EXCEPT !.row = MemMoved(E, NewLineAt(E))]
  /\ pc' = "insertrow"
  /\ call' = [fn |-> "editorInsertRow", step |-> "moved", at |-> NewLineAt(E),
              s |-> NewLineText(E), leading_spaces |-> getLeadingSpaces(E, E.curr_y),
              split |-> E.curr_x # 0, clean |-> TRUE, before |-> E]
  /\ UNCHANGED <<saved, mp, statics, disk, hist>>

\* editorInsertRow 623-634: the fields of E.row[at]
EnterBuild ==
  /\ pc = "insertrow" /\ call.step = "moved"
  /\ E' = [E EXCEPT !.row[call.at + 1] = BuiltRow(call.at, call.s, call.leading_spaces)]
  /\ call' = [call EXCEPT !.step = "built"]
  /\ UNCHANGED <<pc, saved, mp, statics, disk, hist>>

\* editorUpdateRow 584-605: the render of E.row[at], its hl not yet allocated
EnterRender ==
  /\ pc = "insertrow" /\ call.step = "built"
  /\ E' = [E EXCEPT !.row[call.at + 1].render = RenderOf(E.row[call.at + 1].chars)]
  /\ call' = [call EXCEPT !.step = "rendered"]
  /\ UNCHANGED <<pc, saved, mp, statics, disk, hist>>

\* editorUpdateRow 607: editorUpdateSyntax(&E.row[at])
EnterSyntax ==
  /\ pc = "insertrow" /\ call.step = "rendered"
  /\ E' = [E EXCEPT !.row = editorUpdateSyntax(E.row, E.numrows, E.syntax, call.at)]
  /\ call' = [call EXCEPT !.step = "updated"]
  /\ UNCHANGED <<pc, saved, mp, statics, disk, hist>>

\* editorInsertRow 637-639
EnterCount ==
  /\ pc = "insertrow" /\ call.step = "updated"
  /\ E' = [E EXCEPT !.numrows = E.numrows + 1,
                    !.row_num_offset = ndigits(E.numrows + 1),
                    !.dirty = E.dirty + 1]
  /\ call' = [call EXCEPT !.step = "inserted"]
  /\ UNCHANGED <<pc, saved, mp, statics, disk, hist>>

\* row->size = E.curr_x with the E.curr_y and E.curr_x of this moment: a cursor that a
\* resize has put on a shorter row makes the row longer than its allocation
TruncateFaults(e) == e.curr_x > Len(e.row[e.curr_y + 1].chars)

\* editorInsertNewLine 717-720 where the write stays inside the heap: the row takes its
\* terminator and the bytes behind it
TruncateBeyond(e) ==
  { [e EXCEPT !.row = editorUpdateRow(
                        [e.row EXCEPT ![e.curr_y + 1].chars = @ \o <<NUL>> \o g],
                        e.numrows, e.syntax, e.curr_y)] :
      g \in GarbageChars(e.curr_x - Len(e.row[e.curr_y + 1].chars) - 1) }

\* editorInsertNewLine 717-723, the end of editorProcessKeypress, and the next frame
EnterEnd ==
  /\ pc = "insertrow" /\ call.step = "inserted"
  /\ \/ /\ ~call.split
        /\ NextFrameEdited(CursorToNewLine(E, call.leading_spaces), "loop")
     \/ /\ call.split /\ ~TruncateFaults(E)
        /\ NextFrameEdited(CursorToNewLine(TruncateRow(E, E.curr_y, E.curr_x),
                                           call.leading_spaces), "loop")
     \/ /\ call.split /\ TruncateFaults(E)
        /\ \/ \E e \in TruncateBeyond(E) :
                NextFrameEdited(CursorToNewLine(e, call.leading_spaces), "loop")
           \/ /\ pc' = "crashed"
              /\ UNCHANGED <<E, hist>>
  /\ call' = noCall
  /\ ResetQuitTimes
  /\ UNCHANGED <<saved, mp, disk>>

\* SIGWINCH: handleSigWinCh runs where the program is, in the wait for a key or between
\* two statements of editorInsertRow, and draws its frame from E as it is there
SigWinCh ==
  /\ pc \in {"loop", "insertrow"}
  /\ hist.frames < MaxFrames
  /\ \E ws \in SignalWindows :
       /\ ~ScrollFaults(handleSigWinCh(E, ws))
       /\ E' \in editorRefreshScreen(handleSigWinCh(E, ws))
  /\ ~DrawFaults(E')
  /\ pc' = IF DrawReadsNullHl(E') THEN "crashed" ELSE pc
  /\ hist' = [hist EXCEPT !.frames = @ + 1, !.scrolled = TRUE]
  /\ call' = IF pc = "insertrow" THEN [call EXCEPT !.clean = FALSE] ELSE call
  /\ UNCHANGED <<saved, mp, statics, disk>>

NextSignal ==
  \/ ScreenStartOpen
  \/ PressArrow
  \/ EnterMemmove
  \/ EnterBuild
  \/ EnterRender
  \/ EnterSyntax
  \/ EnterCount
  \/ EnterEnd
  \/ SigWinCh

SpecSignal == InitSignal /\ [][NextSignal]_vars

\* the statement groups of the Enter key, run without a signal between them, leave E as
\* editorInsertNewLine leaves it
EnterStepsAreInsertNewLine ==
  [][EnterEnd /\ call.clean =>
       E' \in editorRefreshScreen(
                editorInsertNewLine(call.before, call.leading_spaces))]_vars

(***************************************************************************)
(* The keyword rule.  editorUpdateSyntax is run on rows of a ".c" buffer,   *)
(* one iteration of its while loop at a time; mp holds the render text and  *)
(* the locals of the scan.                                                  *)
(***************************************************************************)

\* the rows are made of up to this many tokens
MaxTokens == 3

\* words of both keyword tiers, a word that is no keyword, separators, a digit, and the
\* characters that start a comment, a string and a preprocessor line
KeywordTokens ==
  { <<"i", "f">>, <<"d", "o">>, <<"i", "n", "t">>, <<"x">>, <<"(">>, <<")">>, <<SP>>,
    <<"1">>, <<".">>, <<"/">>, <<"*">>, <<"\"">>, <<"#">> }

RECURSIVE Concat(_)
Concat(ts) == IF ts = <<>> THEN <<>> ELSE Head(ts) \o Concat(Tail(ts))

IfRow == <<"i", "f", "(", "x", ")">>

KeywordRows ==
  {IfRow} \cup {Concat(ts) : ts \in UNION {[1..k -> KeywordTokens] : k \in 0..MaxTokens}}

\* the locals of editorUpdateSyntax in front of its while loop
ScanStart(render) ==
  [i |-> 0, c |-> NUL, prev_sep |-> TRUE, in_string |-> NUL,
   in_comment |-> FALSE, in_special |-> FALSE,
   hl |-> [j \in 1..Len(render) |-> HL_NORMAL],
   oob |-> {}, starts |-> {}, brk |-> FALSE]

InitKeywords ==
  /\ E = initEditor
  /\ pc = "init"
  /\ saved = <<>>
  /\ InitOthers
  /\ \E render \in KeywordRows :
       mp = [step |-> "keywords", render |-> render, s |-> ScanStart(render)]

\* one iteration of while(i < row->rsize)
ScanIteration ==
  /\ mp.step = "keywords"
  /\ mp.s.i < Len(mp.render) /\ ~mp.s.brk
  /\ mp' = [mp EXCEPT !.s = ScanStep(mp.render, Syntax(<<"c">>), mp.s)]
  /\ UNCHANGED <<E, pc, saved, others>>

NextKeywords == ScanIteration

SpecKeywords == InitKeywords /\ [][NextKeywords]_vars

\* the iteration that starts with locals s gets as far as if(prev_sep): no comment rule
\* and no string rule has ended it before
KeywordReached(render, syn, s) ==
  LET read == [s EXCEPT !.c = CharAt(render, s.i)]
  IN  /\ ~LineCommentTakes(render, syn, read)
      /\ ~BlockCommentTakes(render, syn, read)
      /\ ~StringTakes(syn, SpecialPart(render, syn, read))

\* the locals with which that iteration arrives at if(prev_sep)
KeywordEntry(render, syn, s) ==
  NumberPart(render, syn, SpecialPart(render, syn, [s EXCEPT !.c = CharAt(render, s.i)]))

(***************************************************************************)
(* The number rule.  editorUpdateSyntax is run, one iteration at a time, on *)
(* rows of a ".c" buffer that are made of digits, points, hexadecimal       *)
(* letters and blanks.                                                      *)
(***************************************************************************)

\* the rows of digits are up to this long
MaxNumLen == 4

NumberAlphabet == {"0", "1", "8", ".", "x", "F", SP}

ThreePointFourteenPointFive == <<"3", ".", "1", "4", ".", "5">>

NumberRows ==
  {ThreePointFourteenPointFive}
    \cup UNION {[1..k -> NumberAlphabet] : k \in 0..MaxNumLen}

InitNumbers ==
  /\ E = initEditor
  /\ pc = "init"
  /\ saved = <<>>
  /\ InitOthers
  /\ \E render \in NumberRows :
       mp = [step |-> "keywords", render |-> render, s |-> ScanStart(render)]

NextNumbers == ScanIteration

SpecNumbers == InitNumbers /\ [][NextNumbers]_vars

(***************************************************************************)
(* Selecting the syntax.  A buffer without a name is typed in, row by row,  *)
(* and saved under a name that the prompt returns; or a file is opened.     *)
(***************************************************************************)

\* the keys typed into the buffer without a name are up to this many
MaxTyped == 5

\* default: editorInsertChar(c), in a buffer that has no name yet
TypeChar ==
  /\ pc = "loop"
  /\ OnBuffer(E)
  /\ E.filename = NULL
  /\ hist.edits < MaxTyped
  /\ \E c \in {"/", "*"} : NextFrameEdited(editorInsertChar(E, c), "loop")
  /\ ResetQuitTimes
  /\ UNCHANGED <<saved, mp, call, disk>>

\* case '\r' with the cursor on a row, in a buffer that has no name yet
TypeEnter ==
  /\ pc = "loop"
  /\ OnBuffer(E)
  /\ E.filename = NULL
  /\ hist.edits < MaxTyped
  /\ E.curr_y < E.numrows
  /\ NextFrameEdited(editorInsertNewLine(E, getLeadingSpaces(E, E.curr_y)), "loop")
  /\ ResetQuitTimes
  /\ UNCHANGED <<saved, mp, call, disk>>

NextSelect ==
  \/ ScreenStartNoFile
  \/ ScreenStartOpen
  \/ TypeChar
  \/ TypeEnter
  \/ PressSaveAs
  \/ SaveAsType
  \/ SaveAsErase
  \/ SaveAsCancel
  \/ SaveAsEnter
  \/ SaveAsEnterFails

SpecSelect == Init /\ [][NextSelect]_vars

(***************************************************************************)
(* Quitting.  quit_times is the static counter of editorProcessKeypress;    *)
(* hist.quits counts the Ctrl-Q presses since the last other key.           *)
(***************************************************************************)

\* if(E.dirty && quit_times > 0)
QuitWarnsOnceLess(e, st) == e.dirty # 0 /\ st.quit_times > 1

QuitWarns(e, st) == e.dirty # 0 /\ st.quit_times > 0

\* "WARNING!!! File has unsaved changes.Press Ctrl-Q %d more times to quit."
QuitWarning(quit_times) ==
  CASE quit_times = 1 -> "WARNING: Ctrl-Q 1 more times"
    [] quit_times = 2 -> "WARNING: Ctrl-Q 2 more times"
    [] quit_times = 3 -> "WARNING: Ctrl-Q 3 more times"
    [] OTHER -> "WARNING: Ctrl-Q more times"

\* case CTRL_KEY('q'): the warning and the return that skips the reset of quit_times, or
\* exit(0)
PressQuit ==
  /\ pc = "loop"
  /\ IF QuitWarns(E, statics)
     THEN /\ Refresh([E EXCEPT !.statusmsg = QuitWarning(statics.quit_times)], "loop",
                     [hist EXCEPT !.frames = 1, !.ret = "", !.moved = FALSE,
                                  !.quits = @ + 1])
          /\ statics' = [statics EXCEPT !.quit_times = @ - 1]
     ELSE /\ pc' = "exited"
          /\ hist' = [hist EXCEPT !.quits = @ + 1]
          /\ UNCHANGED <<E, statics>>
  /\ UNCHANGED <<saved, mp, call, disk>>

NextQuit ==
  \/ ScreenStartNoFile
  \/ ScreenStartOpen
  \/ PressArrow
  \/ PressChar
  \/ PressBackspace
  \/ PressSave
  \/ PressSaveFails
  \/ PressQuit

SpecQuit == Init /\ [][NextQuit]_vars

(***************************************************************************)
(* The search in terminals with and without a text row.                     *)
(***************************************************************************)

\* the terminals of the search hits: 2 text rows, and no text row
HitWindows == { [ws_row |-> 4, ws_col |-> 6], [ws_row |-> 2, ws_col |-> 6] }

InitHit ==
  /\ \E ws \in HitWindows : E = updateWindowSize(editorConfig, ws)
  /\ pc = "init"
  /\ saved = <<>>
  /\ mp = mpIdle
  /\ InitOthers

\* the keys of the search prompt that make editorFindCallback scan the rows
FindScanKey == FindType \/ FindErase \/ FindNext \/ FindPrev \/ FindOtherKey

NextHit ==
  \/ ScreenStartNoFile
  \/ ScreenStartOpen
  \/ PressArrow
  \/ PressFind
  \/ FindType
  \/ FindErase
  \/ FindNext
  \/ FindPrev
  \/ FindOtherKey
  \/ FindEnterEmpty
  \/ FindEnter
  \/ FindCancel

SpecHit == InitHit /\ [][NextHit]_vars

(***************************************************************************)
(* Drawing a row.  The loop of editorDrawRows over the cells of a row is     *)
(* run, one iteration at a time, on rows of a ".c" buffer; what it appends   *)
(* to the buffer is kept as a sequence of tokens [k, rgb, attr, j]: "sgr" an *)
(* escape sequence ESC [ attr m, "fg" and "bg" a colour with its attribute,  *)
(* "chr" the character of cell j, "sym" the placeholder of cell j.           *)
(***************************************************************************)

\* the rows that are drawn are up to this long
MaxDrawLen == 4

DrawAlphabet == {"/", "a", CR, "0", "8"}

DrawRows == UNION {[1..k -> DrawAlphabet] : k \in 1..MaxDrawLen}

\* iscntrl(c) on the characters of the rows
iscntrl(c) == c \in {NUL, TAB, LF, CR, "\f", "VT", "DEL"}

\* a colour of editorSyntaxToStyle: the byte of the flags and the bytes of red, green, blue
Color(flags, rgb) == [flags |-> flags, rgb |-> rgb]

\* curr_fgcolor = -1
NoColor == Color(-1, "none")

IS_BOLD(x) == x.flags = 1

IS_ITALIC(x) == x.flags = 2

editorSyntaxToStyle(hl) ==
  CASE hl \in {HL_COMMENT, HL_MLCOMMENT} -> Color(2, "0088ff")
    [] hl = HL_KEYWORD1 -> Color(1, "ff9d00")
    [] hl = HL_KEYWORD2 -> Color(0, "80ffbb")
    [] hl = HL_SPECIAL -> Color(1, "80ffbb")
    [] hl = HL_NUMBER -> Color(0, "ff0044")
    [] hl = HL_STRING -> Color(0, "3ad900")
    [] hl = HL_MATCH -> Color(0, "1e96c8")
    [] hl = HL_ERROR -> Color(0, "820000")
    [] OTHER -> Color(0, "ffffff")

Token(k, rgb, attr, j) == [k |-> k, rgb |-> rgb, attr |-> attr, j |-> j]

\* "\x1b[0;39m"
ResetColor == Token("sgr", "none", "0;39", -1)

\* "\x1b[7m", sym, "\x1b[m" and, if(curr_fgcolor != -1), "\x1b[38;2;%d;%d;%dm"
DrawControl(d) ==
  [d EXCEPT !.j = @ + 1,
            !.out = @ \o <<Token("sgr", "none", "7", -1), Token("sym", "none", "", d.j),
                            Token("sgr", "none", "", -1)>>
                      \o (IF d.curr_fgcolor # NoColor
                          THEN <<Token("fg", d.curr_fgcolor.rgb, "", -1)>> ELSE <<>>)]

\* else if(hl[j] == HL_NORMAL)
DrawNormal(d) ==
  IF d.curr_fgcolor # NoColor \/ d.curr_bgcolor # NoColor
  THEN [d EXCEPT !.out = Append(@, ResetColor),
                 !.curr_fgcolor = NoColor, !.curr_bgcolor = NoColor]
  ELSE d

\* else if(hl[j] == HL_MATCH || hl[j] == HL_ERROR), with "\x1b[48;2;%d;%d;%d;1m"
DrawBackground(d, bgcolor) ==
  IF bgcolor # d.curr_bgcolor
  THEN [d EXCEPT !.curr_fgcolor = NoColor, !.curr_bgcolor = bgcolor,
                 !.out = @ \o <<ResetColor, Token("bg", bgcolor.rgb, "1", -1)>>]
  ELSE d

\* else, with "\x1b[38;2;%d;%d;%d%sm"
DrawForeground(d, fgcolor) ==
  IF fgcolor # d.curr_fgcolor
  THEN [d EXCEPT !.curr_fgcolor = fgcolor, !.curr_bgcolor = NoColor,
                 !.out = @ \o <<ResetColor,
                                Token("fg", fgcolor.rgb,
                                      IF IS_BOLD(fgcolor) THEN "1"
                                      ELSE IF IS_ITALIC(fgcolor) THEN "3" ELSE "", -1)>>]
  ELSE d

\* the colours of cell j, in front of abAppend(ab, &c[j], 1)
DrawColors(hl, d) ==
  IF hl[d.j + 1] = HL_NORMAL THEN DrawNormal(d)
  ELSE IF hl[d.j + 1] \in {HL_MATCH, HL_ERROR}
       THEN DrawBackground(d, editorSyntaxToStyle(hl[d.j + 1]))
       ELSE DrawForeground(d, editorSyntaxToStyle(hl[d.j + 1]))

\* one iteration of for(j = 0; j < len; j++) over c = &render[coloff], hl = &hl[coloff]
DrawCell(c, hl, d) ==
  IF iscntrl(c[d.j + 1]) THEN DrawControl(d)
  ELSE [DrawColors(hl, d) EXCEPT !.j = @ + 1,
                                 !.out = Append(@, Token("chr", "none", c[d.j + 1], d.j))]

\* int curr_fgcolor = -1; int curr_bgcolor = -1; and nothing appended
DrawStart == [j |-> 0, curr_fgcolor |-> NoColor, curr_bgcolor |-> NoColor, out |-> <<>>]

\* the highlight of a row on which the search has found query at its first place, if any
WithHit(render, hl, query) ==
  IF query = <<>> \/ StrStr(render, query) = -1 THEN hl
  ELSE MemSet(hl, StrStr(render, query), HL_MATCH, Len(query))

\* the rest of a sequence from index coloff (from 0) on
From(a, coloff) == SubSeq(a, coloff + 1, Len(a))

InitDraw ==
  /\ E = initEditor
  /\ pc = "init"
  /\ saved = <<>>
  /\ InitOthers
  /\ \E render \in DrawRows, query \in {<<>>, <<"a">>}, coloff \in 0..1 :
       /\ coloff < Len(render)
       /\ mp = [step |-> "draw",
                c |-> From(render, coloff),
                hl |-> From(WithHit(render, Scan(render, Syntax(<<"c">>), FALSE).hl, query),
                            coloff),
                d |-> DrawStart]

\* one iteration of the loop over the cells
DrawIteration ==
  /\ mp.step = "draw"
  /\ mp.d.j < Len(mp.c)
  /\ mp' = [mp EXCEPT !.d = DrawCell(mp.c, mp.hl, mp.d)]
  /\ UNCHANGED <<E, pc, saved, others>>

NextDraw == DrawIteration

SpecDraw == InitDraw /\ [][NextDraw]_vars

\* the style of a terminal: colours and attributes
TermDefault ==
  [fg |-> "none", bg |-> "none", bold |-> FALSE, italic |-> FALSE, inverse |-> FALSE]

\* a terminal with style t reads token tok
TermReads(t, tok) ==
  CASE tok.k = "sgr" /\ tok.attr = "7" -> [t EXCEPT !.inverse = TRUE]
    [] tok.k = "sgr" /\ tok.attr # "7" -> TermDefault
    [] tok.k = "fg" -> [t EXCEPT !.fg = tok.rgb,
                                 !.bold = @ \/ tok.attr = "1",
                                 !.italic = @ \/ tok.attr = "3"]
    [] tok.k = "bg" -> [t EXCEPT !.bg = tok.rgb, !.bold = @ \/ tok.attr = "1"]
    [] OTHER -> t

\* the style of a terminal that has read the first n tokens of out
RECURSIVE TermAfter(_, _)
TermAfter(out, n) ==
  IF n = 0 THEN TermDefault ELSE TermReads(TermAfter(out, n - 1), out[n])

(***************************************************************************)
(* The special tokens.  editorUpdateSyntax is run, one iteration at a time, *)
(* on rows of a ".c" buffer that are made of '#', special words, digits,    *)
(* quotes and blanks.                                                       *)
(***************************************************************************)

\* the rows of special tokens are made of up to this many tokens
MaxSpecialTokens == 4

SpecialTokens == { <<"#">>, <<"i", "f">>, <<SP>>, <<"0">>, <<"1">>, <<"\"">>, <<"x">> }

\* "#define X 1"
DefineRow == <<"#", "d", "e", "f", "i", "n", "e", SP, "X", SP, "1">>

SpecialRows ==
  {DefineRow}
    \cup {Concat(ts) : ts \in UNION {[1..k -> SpecialTokens] : k \in 0..MaxSpecialTokens}}

InitSpecials ==
  /\ E = initEditor
  /\ pc = "init"
  /\ saved = <<>>
  /\ InitOthers
  /\ \E render \in SpecialRows :
       mp = [step |-> "keywords", render |-> render, s |-> ScanStart(render)]

NextSpecials == ScanIteration

SpecSpecials == InitSpecials /\ [][NextSpecials]_vars

(***************************************************************************)
(* The cascade.  editorUpdateRow is run on a row of a ".c" buffer as a key  *)
(* calls it, one iteration of the scan at a time, and from the end of a     *)
(* scan to the call of editorUpdateSyntax for the next row.  mp holds the   *)
(* E.row array, the index at of the row that is scanned, and E.numrows as   *)
(* it is during the call.                                                   *)
(***************************************************************************)

\* the buffers of the cascade have up to this many rows
MaxCascadeRows == 3

CascadeLines == { <<"/", "*">>, <<"*", "/">>, <<"x">>, <<"/", "/", "*">> }

CascadeFiles == UNION {[1..k -> CascadeLines] : k \in 1..MaxCascadeRows}

\* the locals of editorUpdateSyntax(&row[at]) in front of its while loop
CascadeStart(row, at) ==
  [ScanStart(row[at + 1].render) EXCEPT
     !.in_comment = row[at + 1].idx > 0 /\ row[row[at + 1].idx].hl_open_comment]

\* editorUpdateRow(&row[at]) up to the while loop of editorUpdateSyntax
CascadeCall(row, numrows, at) ==
  [step |-> "keywords",
   render |-> RenderOf(row[at + 1].chars),
   s |-> CascadeStart([row EXCEPT ![at + 1].render = RenderOf(row[at + 1].chars)], at),
   row |-> [row EXCEPT ![at + 1].render = RenderOf(row[at + 1].chars)],
   at |-> at, numrows |-> numrows, from |-> at, before |-> row]

\* editorRowInsertChar(&E.row[y], x, c) up to its editorUpdateRow(row)
CharTyped(e, y, x, c) ==
  CascadeCall([SubSeq(e.row, 1, e.numrows) EXCEPT ![y + 1].chars = InsertAt(@, x, c)],
              e.numrows, y)

\* editorInsertRow(at, s, len, 0) up to its editorUpdateRow(&E.row[at]): E.numrows is
\* not incremented yet
RowInserted(e, at, s) ==
  CascadeCall(SubSeq(e.row, 1, at)
                \o <<[idx |-> at, chars |-> s, render |-> <<>>, hl |-> <<>>,
                      hl_open_comment |-> FALSE]>>
                \o SubSeq([j \in 1..e.numrows |-> [e.row[j] EXCEPT !.idx = @ + 1]],
                          at + 1, e.numrows),
              e.numrows, at)

\* a typed character, or Enter inside a row, in a buffer as editorOpen leaves it
InitCascade ==
  /\ E = initEditor
  /\ pc = "init"
  /\ saved = <<>>
  /\ InitOthers
  /\ \E lines \in CascadeFiles :
       \E y \in 0..(Len(lines) - 1) : \E x \in 0..Len(lines[y + 1]) :
         \/ \E c \in {"/", "*"} :
              mp = CharTyped(editorOpen(initEditor, NameC, Text(lines)), y, x, c)
         \/ /\ x > 0
            /\ mp = RowInserted(editorOpen(initEditor, NameC, Text(lines)), y + 1,
                                SubSeq(lines[y + 1], x + 1, Len(lines[y + 1])))

\* the while loop of the scan of row at has ended
ScanEnded == mp.step = "keywords" /\ ~(mp.s.i < Len(mp.render) /\ ~mp.s.brk)

\* int changed = (row->hl_open_comment != in_comment);
CascadeChanged == mp.row[mp.at + 1].hl_open_comment # mp.s.in_comment

\* if(changed && row->idx + 1 < E.numrows) editorUpdateSyntax(&E.row[row->idx + 1]);
CascadeNext ==
  /\ ScanEnded
  /\ CascadeChanged /\ mp.row[mp.at + 1].idx + 1 < mp.numrows
  /\ mp' = [mp EXCEPT !.row = WithScan(mp.row, mp.at, mp.s),
                      !.at = mp.row[mp.at + 1].idx + 1,
                      !.render = mp.row[mp.row[mp.at + 1].idx + 2].render,
                      !.s = CascadeStart(WithScan(mp.row, mp.at, mp.s),
                                         mp.row[mp.at + 1].idx + 1)]
  /\ UNCHANGED <<E, pc, saved, others>>

\* the same if, not taken: editorUpdateRow returns
CascadeEnd ==
  /\ ScanEnded
  /\ ~(CascadeChanged /\ mp.row[mp.at + 1].idx + 1 < mp.numrows)
  /\ mp' = [mp EXCEPT !.row = WithScan(mp.row, mp.at, mp.s), !.step = "done"]
  /\ UNCHANGED <<E, pc, saved, others>>

NextCascade ==
  \/ ScanIteration
  \/ CascadeNext
  \/ CascadeEnd

SpecCascade == InitCascade /\ [][NextCascade]_vars

\* the steps of editorUpdateRow are taken as long as there is one
SpecCascadeFair == SpecCascade /\ WF_vars(NextCascade)

\* the steps of the cascade leave the rows as editorUpdateRow leaves them
CascadeStepsAreUpdateRow ==
  mp.step = "done" =>
    mp.row = editorUpdateRow(mp.before, mp.numrows, <<"c">>, mp.from)

-----------------------------------------------------------------------------
(* Claims *)

\* C1: for every row and every raw offset x in 0..len(raw), mapping x to its render
\* column and that column back to a raw offset gives x again.
C1_RenderToRawInvertsRawToRender ==
  mp.step \in {"cx", "done"} => mp.cx = mp.x

\* a round trip through a tab: offset 2 of "f<TAB>o" is render column 8 and comes back as 2
C1_Witness ==
  /\ mp.step = "cx"
  /\ mp.chars = <<"f", TAB, "o">>
  /\ mp.x = 2
  /\ mp.rx = 8
  /\ mp.cx = 2

\* the least multiple of the tab stop width above col
NextTabStop(col) ==
  CHOOSE m \in (col + 1)..(col + SHIM_TAB_STOP) : m % SHIM_TAB_STOP = 0

\* the column reached by walking the first x characters of chars
RECURSIVE WalkColumn(_, _)
WalkColumn(chars, x) ==
  IF x = 0 THEN 0
  ELSE IF chars[x] = TAB THEN NextTabStop(WalkColumn(chars, x - 1))
  ELSE WalkColumn(chars, x - 1) + 1

\* C2: raw_to_render(row, x) is the column reached by walking raw[0..x) with a tab
\* advancing to the next multiple of 8 and any other character by 1, and it is the
\* length of the render text of raw[0..x); the row TAB "foo" renders as 8 spaces and
\* "foo", and its offset 1 maps to column 8.
C2_RawToRenderWalksTabStops ==
  mp.step = "done" =>
    /\ mp.rx = WalkColumn(mp.chars, mp.x)
    /\ mp.rx = Len(mp.prefix_render)
    /\ mp.chars = <<TAB, "f", "o", "o">> =>
         /\ mp.render = <<SP, SP, SP, SP, SP, SP, SP, SP, "f", "o", "o">>
         /\ mp.x = 1 => mp.rx = 8

C2_Witness ==
  /\ mp.step = "done"
  /\ mp.chars = <<TAB, "f", "o", "o">>
  /\ mp.x = 1
  /\ mp.rx = 8
  /\ mp.render = <<SP, SP, SP, SP, SP, SP, SP, SP, "f", "o", "o">>

\* the tab expansion of chars: every character other than a tab stands at the column
\* the walk reaches it at, and every other column up to the end of the walk is a space
TabExpansion(chars) ==
  [k \in 1..WalkColumn(chars, Len(chars)) |->
     IF \E x \in 1..Len(chars) : chars[x] # TAB /\ WalkColumn(chars, x) = k
     THEN chars[CHOOSE x \in 1..Len(chars) : chars[x] # TAB /\ WalkColumn(chars, x) = k]
     ELSE SP]

\* C3: after every completed operation (load, insert_row, delete_row, insert_char,
\* delete_char, append_to_row, Enter split, Backspace join) every row's render is the
\* tab expansion of its current raw content, render is at least as long as the raw
\* content, and the highlight has one class per render byte.
C3_RenderAndHighlightFullyDerived ==
  /\ Len(E.row) = E.numrows
  /\ \A j \in 1..E.numrows :
       /\ E.row[j].render = TabExpansion(E.row[j].chars)
       /\ Len(E.row[j].render) >= Len(E.row[j].chars)
       /\ Len(E.row[j].hl) = Len(E.row[j].render)

\* Enter has split the row TAB "x" after the tab: the row that keeps the tab renders
\* as 8 spaces, and the new row below holds the 8 spaces of the indentation and "x"
C3_Witness ==
  /\ pc = "loop"
  /\ E.numrows = 4
  /\ E.curr_y = 2
  /\ E.row[2].chars = <<TAB>>
  /\ E.row[2].render = Spaces(8)
  /\ Len(E.row[2].hl) = 8
  /\ E.row[3].chars = Spaces(8) \o <<"x">>
  /\ E.row[3].render = Spaces(8) \o <<"x">>

\* C4: after any sequence of structural operations (insert_row at any position in
\* 0..numrows, delete_row at any position, Enter split, Backspace join, load) every
\* row i in [0, numrows) has idx equal to i.
C4_RowIndexIsPosition ==
  \A j \in 1..E.numrows : E.row[j].idx = j - 1

\* a row has been inserted in front of the three rows of a loaded file, and the loaded
\* rows carry the indexes 1, 2, 3
C4_Witness ==
  /\ pc = "rows"
  /\ mp.step = "inserted"
  /\ mp.at = 0
  /\ mp.before.numrows = 3
  /\ E.numrows = 4
  /\ E.row[2].idx = 1
  /\ E.row[4].idx = 3
  /\ E.row[4].chars = mp.before.row[3].chars

\* C5: for every buffer, every i in [0, numrows] and every content, insert_row(i,
\* content) followed by delete_row(i) leaves a row sequence content-equal to the one
\* before the insert, with the same numrows and the same idx on every row.
C5_InsertThenDeleteRestoresRows ==
  (pc = "rows" /\ mp.step = "deleted") =>
    /\ E.numrows = mp.before.numrows
    /\ Contents(E) = Contents(mp.before)
    /\ \A j \in 1..E.numrows : E.row[j].idx = mp.before.row[j].idx

\* "/*" was inserted before the second of three loaded rows and deleted again
C5_Witness ==
  /\ pc = "rows"
  /\ mp.step = "deleted"
  /\ mp.at = 1
  /\ mp.before.numrows = 3
  /\ E.numrows = 3
  /\ E.dirty = 2
  /\ E.row[2].chars = <<TAB, "x">>
  /\ E.row[2].idx = 1

\* the load rule applied to a flat text: split on line terminators, strip trailing CR/LF
Resplit(text) == [j \in 1..Len(GetLines(text)) |-> StripEol(GetLines(text)[j])]

\* C6: for every buffer reachable by loading and editing through key events (typed
\* control bytes such as LF included), flattening the rows and re-splitting the text
\* with the load rule gives the same number of rows with the same raw contents.
C6_FlattenResplitRoundTrip ==
  pc = "loop" => Resplit(editorRowsToString(E)) = Contents(E)

\* Ctrl-J typed into the empty buffer: one row that holds LF, which flattens to two
\* line terminators and splits back into two empty rows
C6_Witness ==
  /\ pc = "loop"
  /\ E.filename = NULL
  /\ Contents(E) = << <<LF>> >>
  /\ editorRowsToString(E) = <<LF, LF>>
  /\ Resplit(editorRowsToString(E)) = << <<>>, <<>> >>

\* the row has the highlight and the exit state that the scan s gives
RowHasScan(r, s) == r.hl = s.hl /\ r.hl_open_comment = s.in_comment

\* row i (from 0) of e is as tokenizing it from the exit state stored in row i - 1 leaves it
RowFollowsPrevious(e, i) ==
  RowHasScan(e.row[i + 1],
             Scan(e.row[i + 1].render, Syntax(e.syntax),
                  i > 0 /\ e.row[i].hl_open_comment))

HighlightCascaded(e) ==
  e.syntax # NULL => \A i \in 0..(e.numrows - 1) : RowFollowsPrevious(e, i)

\* C7: after any insert_row, any Enter and any Backspace join, every row has the
\* highlight and ends_inside_block_comment of tokenizing it with the start state
\* ends_inside_block_comment of the row above (the highlight of a fresh top-to-bottom
\* tokenization), also when the row is inserted immediately before the last row.
C7_HighlightCascadesAcrossRowOps ==
  [][(KeyEnter \/ KeyEnterPastEnd \/ KeyBackspace) => HighlightCascaded(E')]_vars

\* Enter after the first "/" of "//*" above "y": the new row "/*" is inserted before the
\* last row and ends inside a block comment, and "y" below it is still classed Normal
C7_Witness ==
  /\ pc = "loop"
  /\ E.dirty = 1
  /\ Contents(E) = << <<"/">>, <<"/", "*">>, <<"y">> >>
  /\ E.row[2].hl_open_comment
  /\ E.row[3].hl = <<HL_NORMAL>>
  /\ ~E.row[3].hl_open_comment

\* the scan of row j (from 1) in a top-to-bottom tokenization of the rows
RECURSIVE FreshScan(_, _, _)
FreshScan(row, syn, j) ==
  Scan(row[j].render, syn, j > 1 /\ FreshScan(row, syn, j - 1).in_comment)

\* a key has inserted a character into the row under the cursor or deleted one from it,
\* and the row's exit state has changed
CharEditChangesExit ==
  /\ KeyChar \/ KeyBackspace \/ KeyDel
  /\ E.curr_y < E.numrows
  /\ E'.numrows = E.numrows
  /\ E'.row[E.curr_y + 1].hl_open_comment # E.row[E.curr_y + 1].hl_open_comment

\* C8: when a character insert or delete on row r changes r's exit state, every row
\* below r has afterwards the highlight and exit state of a fresh top-to-bottom
\* tokenization.
C8_CharEditCascadesToDependentRows ==
  [][CharEditChangesExit =>
       \A j \in (E.curr_y + 2)..E'.numrows :
          RowHasScan(E'.row[j], FreshScan(E'.row, Syntax(E'.syntax), j))]_vars

\* the same step from a buffer whose highlight is that of a fresh tokenization
C8_FromCascadedBuffer ==
  [][(HighlightCascaded(E) /\ CharEditChangesExit) => HighlightCascaded(E')]_vars

\* "*" typed after the "/" of row 0 above "/*" and a stale "y": row 0 now ends inside
\* a block comment, row 1 keeps its exit state, and "y" is still classed Normal
C8_Witness ==
  /\ pc = "loop"
  /\ E.dirty = 2
  /\ Contents(E) = << <<"/", "*">>, <<"/", "*">>, <<"y">> >>
  /\ E.row[1].hl_open_comment
  /\ E.row[2].hl_open_comment
  /\ E.row[3].hl = <<HL_NORMAL>>

\* the render text holds the end marker of a block comment
HasEndMarker(render, syn) ==
  \E k \in 0..Len(render) : StartsWith(render, k, syn.multiline_comment_end)

\* the scan s of render has recognised a block-comment start that no end marker follows
HasUnmatchedStart(render, syn, s) ==
  \E p \in s.starts :
     ~\E k \in (p + Len(syn.multiline_comment_start))..Len(render) :
         StartsWith(render, k, syn.multiline_comment_end)

\* the first row after row r (rows from 1) that holds the end marker, or numrows + 1
FirstEndRow(e, syn, r) ==
  LET ends == {k \in (r + 1)..e.numrows : HasEndMarker(e.row[k].render, syn)}
  IN IF ends = {} THEN e.numrows + 1 ELSE CHOOSE k \in ends : \A n \in ends : k <= n

\* the index (from 0) of the first end marker in render
FirstEndMarker(render, syn) ==
  CHOOSE k \in 0..Len(render) :
     /\ StartsWith(render, k, syn.multiline_comment_end)
     /\ \A n \in 0..(k - 1) : ~StartsWith(render, n, syn.multiline_comment_end)

\* row r (from 1) of a loaded buffer starts a block comment that it does not end
StartsOpenComment(e, syn, r) ==
  HasUnmatchedStart(e.row[r].render, syn, FreshScan(e.row, syn, r))

\* the row that ends the comment: Block Comment through the first end marker, and the
\* exit state of the text after the marker tokenized from outside a comment
EndRowLeavesComment(row, syn, q) ==
  /\ \A k \in 1..(q + Len(syn.multiline_comment_end)) : row.hl[k] = HL_MLCOMMENT
  /\ row.hl_open_comment =
       Scan(SubSeq(row.render, q + Len(syn.multiline_comment_end) + 1, Len(row.render)),
            syn, FALSE).in_comment

OpenUntilEndRow(e, syn, r, last) ==
  /\ \A k \in r..(last - 1) : e.row[k].hl_open_comment
  /\ last <= e.numrows =>
       EndRowLeavesComment(e.row[last], syn, FirstEndMarker(e.row[last].render, syn))

\* C9: in a loaded buffer with the C profile, a row r that holds a block-comment start
\* with no matching end on that row ends inside a block comment, and so do the rows
\* below it that come before the first following row with the end marker; that row is
\* Block Comment through the marker and has the exit state of the text after the marker
\* (false when no block-comment start follows it).
C9_OpenCommentUntilEndMarkerRow ==
  pc = "loaded" =>
    \A r \in 1..E.numrows :
       StartsOpenComment(E, Syntax(E.syntax), r) =>
         OpenUntilEndRow(E, Syntax(E.syntax), r, FirstEndRow(E, Syntax(E.syntax), r))

\* the file "/*", "x", "*/": the first two rows end inside the comment, the third does not
C9_Witness ==
  /\ pc = "loaded"
  /\ Contents(E) = << <<"/", "*">>, <<"x">>, <<"*", "/">> >>
  /\ E.row[1].hl_open_comment
  /\ E.row[2].hl_open_comment
  /\ E.row[3].hl = <<HL_MLCOMMENT, HL_MLCOMMENT>>
  /\ ~E.row[3].hl_open_comment

\* C9 as the specification states it: ends_inside_block_comment is true for row r and
\* for all following rows up to and including the first one that holds the end marker
C9_OpenThroughEndMarkerRow ==
  pc = "loaded" =>
    \A r \in 1..E.numrows :
       StartsOpenComment(E, Syntax(E.syntax), r) =>
         \A k \in r..E.numrows :
            k <= FirstEndRow(E, Syntax(E.syntax), r) => E.row[k].hl_open_comment

\* C10: whenever the row contents differ from the contents at the last load, dirty is
\* nonzero, and every key that changes the contents raises it and no key lowers it;
\* dirty counts the changes, so it stays nonzero when the rows return to the loaded
\* contents.
C10_DirtyCountsContentChanges ==
  /\ [](Contents(E) # saved => E.dirty # 0)
  /\ [][pc = "loop" => /\ Contents(E') # Contents(E) => E'.dirty > E.dirty
                        /\ E'.dirty >= E.dirty]_vars

\* "/" typed in front of the loaded row "//*" and deleted again: the contents are the
\* loaded ones and dirty is 2
C10_Witness ==
  /\ pc = "loop"
  /\ E.filename = NameC
  /\ Contents(E) = << <<"/", "/", "*">>, <<"y">> >>
  /\ Contents(E) = saved
  /\ E.curr_x = 0
  /\ E.curr_y = 0
  /\ E.dirty = 2

\* C10 as the specification states it: dirty is true if and only if the row contents
\* differ from the contents at the last load
C10_DirtyIffContentsDiffer ==
  pc = "loop" => ((E.dirty # 0) <=> (Contents(E) # saved))

\* a step of editorSave that does not write the whole text: open, ftruncate or write
\* fails, or the "Save as" prompt is cancelled
SaveFailed == PressSaveFails \/ SaveAsCancel \/ SaveAsEnterFails

\* the cursor of the buffer
Cursor(e) == <<e.curr_x, e.curr_y>>

\* C11: when a save fails (the file cannot be opened, truncated or fully written) or the
\* "Save as" prompt is cancelled, the main loop goes on with a status message set, the
\* rows, the cursor and the file name are as before and the buffer is as dirty as
\* before; the dirty marker is cleared only by a step that has written the whole text.
C11_FailedSaveLeavesBufferAsItWas ==
  /\ [][SaveFailed =>
          /\ pc' = "loop"
          /\ E'.statusmsg \in {"Save aborted", "Can't save! I/O error"}
          /\ E'.row = E.row
          /\ Cursor(E') = Cursor(E)
          /\ E'.filename = E.filename
          /\ E'.dirty = E.dirty]_vars
  /\ [][E.dirty # 0 /\ E'.dirty = 0 =>
          /\ disk'.name = E'.filename
          /\ disk'.text = editorRowsToString(E')]_vars

\* C11 without the file name and the highlight: what a failed save does keep
C11_FailedSaveKeepsTextCursorAndDirty ==
  /\ [][SaveFailed =>
          /\ pc' = "loop"
          /\ E'.statusmsg \in {"Save aborted", "Can't save! I/O error"}
          /\ Contents(E') = Contents(E)
          /\ Cursor(E') = Cursor(E)
          /\ E'.dirty = E.dirty]_vars
  /\ [][E.dirty # 0 /\ E'.dirty = 0 =>
          /\ disk'.name = E'.filename
          /\ disk'.text = editorRowsToString(E')]_vars

\* C12: after any sequence of key events (printable characters, Enter, Backspace,
\* Delete, arrows, Home, End, PageUp, PageDown), whenever the editor waits for the next
\* key the cursor row y satisfies 0 <= y <= numrows.
C12_CursorRowWithinBuffer ==
  pc = "loop" => 0 <= E.curr_y /\ E.curr_y <= E.numrows

\* C12 for the terminals of three rows and more, where the viewport has a row
C12_CursorRowWithinBufferOfVisibleViewport ==
  pc = "loop" /\ E.screenrows >= 1 => 0 <= E.curr_y /\ E.curr_y <= E.numrows

\* the viewport has a row, and a column right of the line numbers
ViewportVisible(e) == e.screenrows >= 1 /\ e.screencols > e.row_num_offset + 1

\* the cursor is inside the viewport and the offsets are not negative
CursorInsideViewport(e) ==
  /\ e.rowoff <= e.curr_y
  /\ e.curr_y < e.rowoff + e.screenrows
  /\ e.coloff <= e.render_x
  /\ e.render_x < e.coloff + (e.screencols - e.row_num_offset - 1)
  /\ e.rowoff >= 0
  /\ e.coloff >= 0

C13_CursorOnBufferInsideViewportAfterScroll ==
  hist.scrolled /\ ViewportVisible(E) /\ E.curr_y >= 0 => CursorInsideViewport(E)

\* C17: for every new terminal size with at least one row and one column, the resize
\* handler leaves 0 <= y <= numrows and 0 <= raw_x <= len(row y) (0 when y == numrows),
\* and the viewport height that is used for drawing is >= 0.
C17_ResizeLeavesCursorOnBuffer ==
  [][Resize /\ pc = "loop" /\ OnBuffer(E) => OnBuffer(E') /\ E'.screenrows >= 0]_vars

\* the rows (from 0) whose render text holds query
Holders(e, query) ==
  {j \in 0..(e.numrows - 1) :
     \E k \in 0..(Len(e.row[j + 1].render) - Len(query)) :
        SubSeq(e.row[j + 1].render, k + 1, k + Len(query)) = query}

\* the least row of a set of rows that is not empty
FirstOf(H) == CHOOSE m \in H : \A n \in H : m <= n

\* the row of H that a forward search reaches from row from, around the end of the file
NextHolder(H, from) ==
  IF \E j \in H : j > from THEN FirstOf({j \in H : j > from}) ELSE FirstOf(H)

\* C14: the search wraps around the end of the file: with a query that occurs only on
\* row 0 and the cursor on the last row, a forward search finds row 0; and the first hit
\* of a new or changed query is the first row that holds it, whatever row the cursor is
\* on when the query changes.
C14_SearchWrapsAndNewQueryStartsAtTop ==
  /\ [][(FindType \/ FindErase) /\ Holders(E, call'.buf) # {} =>
          E'.curr_y = FirstOf(Holders(E, call'.buf))]_vars
  /\ [][FindNext /\ Holders(E, call.buf) # {} =>
          E'.curr_y = NextHolder(Holders(E, call.buf), statics.last_match)]_vars
  /\ [][(FindType \/ FindNext) /\ Holders(E, call'.buf) = {0} /\ E.curr_y = E.numrows - 1 =>
          E'.curr_y = 0]_vars

\* a search that was started on the last row of a file of several rows has found its
\* query, which only row 0 holds, on row 0
C14_Witness ==
  /\ pc = "find"
  /\ E.numrows >= 2
  /\ call.before.curr_y = E.numrows - 1
  /\ call.buf # <<>>
  /\ Holders(E, call.buf) = {0}
  /\ E.curr_y = 0
  /\ statics.last_match = 0

\* the rows (from 0) that have a cell of the Match class
MatchRows(e) ==
  {j \in 0..(e.numrows - 1) : \E i \in 1..Len(e.row[j + 1].hl) : e.row[j + 1].hl[i] = HL_MATCH}

\* row j of e has the highlight it had in before, but for Match cells on the row of the
\* current hit, whose own highlight is kept in saved_hl
OverlayOnly(e, st, before, j) ==
  \/ e.row[j + 1].hl = before.row[j + 1].hl
  \/ /\ st.saved_hl # NULL
     /\ st.saved_hl_line = j
     /\ st.saved_hl = before.row[j + 1].hl
     /\ Len(e.row[j + 1].hl) = Len(st.saved_hl)
     /\ \A i \in 1..Len(st.saved_hl) : e.row[j + 1].hl[i] \in {HL_MATCH, st.saved_hl[i]}

\* C15: during a search the Match overlay is on at most one row at a time, every other
\* row has the highlight it had before the search (the previous hit's row is restored
\* byte for byte before the next scan), and after the search is confirmed or cancelled
\* no cell is Match and every row's highlight is what it was before the search.
C15_MatchOverlayOnOneRowAndUndone ==
  /\ [](pc = "find" =>
          /\ Cardinality(MatchRows(E)) <= 1
          /\ E.numrows = call.before.numrows
          /\ \A j \in 0..(E.numrows - 1) : OverlayOnly(E, statics, call.before, j))
  /\ [][FindEnter \/ FindCancel =>
          /\ MatchRows(E') = {}
          /\ E'.row = call.before.row]_vars

\* the hit is on the second row, after a hit on the first row, which holds the query too
C15_Witness ==
  /\ pc = "find"
  /\ call.buf # <<>>
  /\ MatchRows(E) = {1}
  /\ 0 \in Holders(E, call.buf)

\* C16: cancelling a search with Escape puts the cursor (raw_x, y) and the scroll
\* offsets (row_offset, col_offset) back to what they were when the search started, and
\* leaves the rows and dirty as they were.
C16_CancelRestoresView ==
  [][FindCancel =>
       /\ View(E') = View(call.before)
       /\ E'.row = call.before.row
       /\ E'.dirty = call.before.dirty]_vars

\* a search that had moved the view has been cancelled, and the row offset is not the
\* one that a scroll to the cursor would give
C16_Witness ==
  /\ pc = "loop"
  /\ hist.ret = "NULL"
  /\ hist.moved
  /\ E.rowoff # E.curr_y
  /\ E.coloff > 0


\* C18: a resize that arrives while a key is handled does not run inside the handling:
\* the frame that the resize handler draws shows the rows as they were when the key was
\* read or as they are when the key has been handled, never the rows of a state between
C18_ResizeFrameShowsWholeStep ==
  [][SigWinCh /\ pc = "insertrow" =>
       Projected(E) \in { Projected(call.before),
                          Projected(editorInsertNewLine(call.before,
                                                        call.leading_spaces)) }]_vars

\* a frame of the resize handler drawn from E.row[at] before its highlight exists
C18_FrameOfHalfBuiltRow ==
  /\ pc = "crashed"
  /\ call.fn = "editorInsertRow"
  /\ call.step = "rendered"

\* row filerow is one of the rows that editorDrawRows draws
OnScreen(e, filerow) ==
  /\ filerow < e.numrows
  /\ e.rowoff <= filerow /\ filerow < e.rowoff + e.screenrows

\* the hl array of every drawn row is the one that editorUpdateSyntax has made for the
\* row's render: it has a class for each byte of it
DrawnRowsHaveHighlight(e) ==
  \A filerow \in 0..(e.numrows - 1) :
    OnScreen(e, filerow) =>
      Len(e.row[filerow + 1].hl) = Len(e.row[filerow + 1].render)

\* C19: at every frame (of the main loop, of a prompt, of a resize) every row in the
\* frame has had its highlight recomputed after the latest change of its render, and a
\* key is handled completely before the next frame is drawn
C19_FramesShowRecomputedHighlight ==
  [][(ScreenStartOpen \/ PressArrow \/ EnterEnd \/ SigWinCh) =>
       /\ DrawnRowsHaveHighlight(E')
       /\ (SigWinCh => pc = "loop")]_vars

\* C19 for the frames of the loops: where no signal arrives inside a handler, every
\* wait for a key follows exactly one frame, drawn from rows whose highlight is complete
C19_LoopDrawsOneFramePerRead ==
  pc \in {"loop", "saveas", "find"} =>
    /\ hist.frames = 1
    /\ DrawnRowsHaveHighlight(E)

\* the keyword kw without the '|' that marks the second tier
KeywordWord(kw) == IF kw[Len(kw)] = "|" THEN SubSeq(kw, 1, Len(kw) - 1) ELSE kw

KeywordClass(kw) == IF kw[Len(kw)] = "|" THEN HL_KEYWORD2 ELSE HL_KEYWORD1

\* the keywords that stand at index i of render with a separator behind them
KeywordsAt(render, syn, i) ==
  { j \in 1..Len(syn.keywords) :
      /\ i + Len(KeywordWord(syn.keywords[j])) <= Len(render)
      /\ \A k \in 1..Len(KeywordWord(syn.keywords[j])) :
           render[i + k] = KeywordWord(syn.keywords[j])[k]
      /\ \/ i + Len(KeywordWord(syn.keywords[j])) >= Len(render)
         \/ is_separator(render[i + Len(KeywordWord(syn.keywords[j])) + 1]) }

\* the iteration from locals s to locals t has classified keyword kw at e.i and nothing
\* else, and has left the scan on the byte behind the keyword, outside a string, a
\* comment and a number, with the keyword counted as a non-separator
KeywordClassified(e, t, kw) ==
  /\ t.hl = [k \in 1..Len(e.hl) |->
               IF e.i < k /\ k <= e.i + Len(KeywordWord(kw))
               THEN KeywordClass(kw) ELSE e.hl[k]]
  /\ t.i = e.i + Len(KeywordWord(kw))
  /\ ~t.prev_sep
  /\ t.in_string = e.in_string /\ t.in_comment = e.in_comment
  /\ t.in_special = e.in_special
  /\ t.oob = e.oob /\ ~t.brk

\* C20: with the keyword list of the C syntax, which contains "if", the row "if(x)" has
\* Keyword1 on exactly its first two bytes; and whenever the scan stands at a separator
\* boundary on a first-tier (second-tier) keyword that is followed by a separator or by
\* the end of the row, that iteration sets Keyword1 (Keyword2) on exactly the bytes of
\* the keyword and goes on with the byte behind it under the ordinary rules
C20_KeywordClassifiedOverItsLength ==
  /\ [](mp.step = "keywords" /\ mp.render = IfRow /\ mp.s.i >= Len(IfRow) =>
          /\ mp.s.hl = <<HL_KEYWORD1, HL_KEYWORD1, HL_NORMAL, HL_NORMAL, HL_NORMAL>>
          /\ mp.s.hl = Scan(IfRow, Syntax(<<"c">>), FALSE).hl)
  /\ [][ScanIteration /\ KeywordReached(mp.render, Syntax(<<"c">>), mp.s)
          /\ KeywordEntry(mp.render, Syntax(<<"c">>), mp.s).prev_sep =>
          \A j \in KeywordsAt(mp.render, Syntax(<<"c">>),
                              KeywordEntry(mp.render, Syntax(<<"c">>), mp.s).i) :
            KeywordClassified(KeywordEntry(mp.render, Syntax(<<"c">>), mp.s), mp'.s,
                              Syntax(<<"c">>).keywords[j])]_vars

\* the scan of "(int " has classified "int" as Keyword2 and stands on the space
C20_Witness ==
  /\ mp.step = "keywords"
  /\ mp.render = <<"(", "i", "n", "t", SP>>
  /\ mp.s.i = 4
  /\ mp.s.hl = <<HL_NORMAL, HL_KEYWORD2, HL_KEYWORD2, HL_KEYWORD2, HL_NORMAL>>

\* the index behind the numeric run that starts at index i: the first separator other
\* than the point, or the end of the row
RECURSIVE RunEnd(_, _)
RunEnd(render, i) ==
  IF i < Len(render) /\ (~is_separator(render[i + 1]) \/ render[i + 1] = ".")
  THEN RunEnd(render, i + 1) ELSE i

\* the iteration that starts now is taken by the number rule
NumberRunStarts ==
  /\ mp.s.i < Len(mp.render)
  /\ NumberTakes(mp.render, Syntax(<<"c">>), [mp.s EXCEPT !.c = mp.render[mp.s.i + 1]])

Points(run) == Cardinality({k \in 1..Len(run) : run[k] = "."})

OctalDigits == {"0", "1", "2", "3", "4", "5", "6", "7"}

HexDigits == {"0", "1", "2", "3", "4", "5", "6", "7", "8", "9",
              "A", "B", "C", "D", "E", "F", "a", "b", "c", "d", "e", "f"}

\* digits with at most one point, and no leading zero in front of a digit
Decimal(run) ==
  /\ \A k \in 1..Len(run) : isdigit(run[k]) \/ run[k] = "."
  /\ \E k \in 1..Len(run) : isdigit(run[k])
  /\ Points(run) <= 1
  /\ ~(Len(run) >= 2 /\ run[1] = "0" /\ isdigit(run[2]))

Octal(run) ==
  /\ Len(run) >= 2 /\ run[1] = "0"
  /\ \A k \in 2..Len(run) : run[k] \in OctalDigits

Hexadecimal(run) ==
  /\ Len(run) >= 3 /\ run[1] = "0" /\ run[2] \in {"x", "X"}
  /\ \A k \in 3..Len(run) : run[k] \in HexDigits

\* a numeric run of digits and points with a second decimal point
SecondPoint(run) ==
  /\ \A k \in 1..Len(run) : isdigit(run[k]) \/ run[k] = "."
  /\ Points(run) >= 2

\* the cells start..end-1 of hl all hold class
AllCells(hl, start, end, class) == \A k \in (start + 1)..end : hl[k] = class

\* C21: the text "3.14.5" has Number on "3.14" and Error on ".5"; a numeric run with a
\* second decimal point is classified Error and never Normal; well-formed decimal,
\* leading-zero octal and 0x/0X hexadecimal runs are classified Number
C21_MalformedNumberIsError ==
  /\ [](mp.render = ThreePointFourteenPointFive
          /\ mp.s.i >= Len(ThreePointFourteenPointFive) =>
            mp.s.hl = <<HL_NUMBER, HL_NUMBER, HL_NUMBER, HL_NUMBER, HL_ERROR, HL_ERROR>>)
  /\ [][ScanIteration /\ NumberRunStarts =>
          LET end == RunEnd(mp.render, mp.s.i)
              run == SubSeq(mp.render, mp.s.i + 1, end)
          IN  /\ SecondPoint(run) =>
                   \A k \in (mp.s.i + 1)..end : mp'.s.hl[k] \in {HL_NUMBER, HL_ERROR}
              /\ SecondPoint(run) => \E k \in (mp.s.i + 1)..end : mp'.s.hl[k] = HL_ERROR
              /\ Decimal(run) \/ Octal(run) \/ Hexadecimal(run) =>
                   AllCells(mp'.s.hl, mp.s.i, end, HL_NUMBER)]_vars

\* C21 for the well-formed runs only: decimal, octal and hexadecimal runs are Number
\* over their whole length
C21_WellFormedNumberIsNumber ==
  [][ScanIteration /\ NumberRunStarts =>
       LET end == RunEnd(mp.render, mp.s.i)
           run == SubSeq(mp.render, mp.s.i + 1, end)
       IN  Decimal(run) \/ Octal(run) \/ Hexadecimal(run) =>
             AllCells(mp'.s.hl, mp.s.i, end, HL_NUMBER)]_vars

\* what the scan makes of "3.14.5": one run, Normal over its whole length
C21_SecondPointGivesNormal ==
  mp.render = ThreePointFourteenPointFive /\ mp.s.i >= Len(ThreePointFourteenPointFive) =>
    mp.s.hl = <<HL_NORMAL, HL_NORMAL, HL_NORMAL, HL_NORMAL, HL_NORMAL, HL_NORMAL>>

\* a tokenization of the render texts from the top row down: the classes and the
\* ends-inside-block-comment state of each row, the first row starting outside a comment
RECURSIVE FreshFrom(_, _, _)
FreshFrom(renders, syn, in_comment) ==
  IF renders = <<>> THEN <<>>
  ELSE <<[hl |-> Scan(Head(renders), syn, in_comment).hl,
          open |-> Scan(Head(renders), syn, in_comment).in_comment]>>
         \o FreshFrom(Tail(renders), syn, Scan(Head(renders), syn, in_comment).in_comment)

Renders(e) == [j \in 1..e.numrows |-> e.row[j].render]

\* every row of e is highlighted as a tokenization from the top under E.syntax gives it,
\* or all Normal where there is no syntax
HighlightedFromTop(e) ==
  IF e.syntax = NULL
  THEN \A j \in 1..e.numrows : \A k \in 1..Len(e.row[j].hl) : e.row[j].hl[k] = HL_NORMAL
  ELSE \A j \in 1..e.numrows :
         /\ e.row[j].hl = FreshFrom(Renders(e), Syntax(e.syntax), FALSE)[j].hl
         /\ e.row[j].hl_open_comment = FreshFrom(Renders(e), Syntax(e.syntax), FALSE)[j].open

\* C22: after the syntax is selected, on open and on the save of a buffer without a
\* name under the name typed, the highlight and the ends-inside-block-comment state of
\* every row are those of a tokenization from the top under the selected syntax; with no
\* matching syntax every highlight cell is Normal
C22_SelectingSyntaxRehighlightsFromTop ==
  [][(ScreenStartOpen \/ SaveAsEnter \/ SaveAsEnterFails) =>
       /\ Len(E'.row) = E'.numrows
       /\ \A j \in 1..E'.numrows : Len(E'.row[j].hl) = Len(E'.row[j].render)
       /\ HighlightedFromTop(E')]_vars

\* a buffer typed without a name and saved as ".c", whose second row lies in a block
\* comment that the first row opens
C22_Witness ==
  /\ pc = "loop"
  /\ E.filename = <<".", "c">>
  /\ E.syntax = <<"c">>
  /\ E.numrows = 2
  /\ E.row[1].hl_open_comment
  /\ E.row[2].hl = <<HL_MLCOMMENT>>

LastOf(H) == CHOOSE m \in H : \A n \in H : m >= n

\* the row of H that a backward search reaches from row from, around the top of the file
PrevHolder(H, from) ==
  IF \E j \in H : j < from THEN LastOf({j \in H : j < from}) ELSE LastOf(H)

\* C24: in a search with a match on row m and the query unchanged, Right/Down moves the
\* match to the nearest row after m that holds the query, around the end of the file to
\* row 0, and Left/Up to the nearest such row before m, around row 0 to the last row; a
\* row that is the only holder keeps the match; after Enter or Escape last_match and
\* direction are reset, so that the first hit of the next search is the first holder from
\* row 0 on, whatever key gives it.
C24_NextAndPreviousMatchCycle ==
  /\ [][FindNext /\ statics.last_match # -1 =>
          /\ statics.last_match \in Holders(E, call.buf)
          /\ statics'.last_match = NextHolder(Holders(E, call.buf), statics.last_match)
          /\ E'.curr_y = statics'.last_match
          /\ Holders(E, call.buf) = {statics.last_match} =>
               statics'.last_match = statics.last_match]_vars
  /\ [][FindPrev /\ statics.last_match # -1 =>
          /\ statics.last_match \in Holders(E, call.buf)
          /\ statics'.last_match = PrevHolder(Holders(E, call.buf), statics.last_match)
          /\ E'.curr_y = statics'.last_match
          /\ Holders(E, call.buf) = {statics.last_match} =>
               statics'.last_match = statics.last_match]_vars
  /\ [][FindEnter \/ FindCancel =>
          statics'.last_match = -1 /\ statics'.direction = 1]_vars
  /\ [][PressFind => statics.last_match = -1 /\ statics.direction = 1]_vars
  /\ [][(FindNext \/ FindPrev \/ FindType \/ FindErase \/ FindOtherKey)
          /\ statics.last_match = -1 /\ Holders(E, call'.buf) # {} =>
          statics'.last_match = FirstOf(Holders(E, call'.buf))]_vars

\* a search backwards has gone from the first holder, row 0, around the top of the file
\* to the last holder, the last row
C24_Witness ==
  /\ pc = "find"
  /\ call.buf # <<>>
  /\ statics.direction = -1
  /\ Cardinality(Holders(E, call.buf)) >= 2
  /\ statics.last_match = LastOf(Holders(E, call.buf))
  /\ statics.last_match = E.numrows - 1
  /\ 0 \in Holders(E, call.buf)

\* the offsets (from 0) of render at which query starts
Offsets(render, query) ==
  {k \in 0..(Len(render) - Len(query)) : SubSeq(render, k + 1, k + Len(query)) = query}

\* raw index cx of chars is the one whose character covers render column k, or the end
\* of chars when no character does
CoversColumn(chars, cx, k) ==
  /\ 0 <= cx /\ cx <= Len(chars)
  /\ editorRowCxtoRx(chars, cx) <= k
  /\ cx < Len(chars) => k < editorRowCxtoRx(chars, cx + 1)

\* e is the editor at the frame after a hit of query on row m, which had highlight hl
\* before the hit: the cursor, the Match cells and, with topRow, the row offset
ShowsHit(e, query, m, hl, topRow) ==
  LET k == FirstOf(Offsets(e.row[m + 1].render, query))
  IN /\ e.curr_y = m
     /\ CoversColumn(e.row[m + 1].chars, e.curr_x, k)
     /\ Len(query) > 0 => e.curr_x < Len(e.row[m + 1].chars)
     /\ Len(e.row[m + 1].hl) = Len(hl)
     /\ \A i \in 1..Len(hl) :
          e.row[m + 1].hl[i] = (IF k < i /\ i <= k + Len(query) THEN HL_MATCH ELSE hl[i])
     /\ topRow => e.rowoff = m

\* C25: on every search hit at render offset k of row m the cursor is on row m at the
\* raw index whose character covers render column k, exactly the len(query) highlight
\* cells from k are Match, and at the next frame row_offset is m.
C25_HitIsTopRowOfViewport ==
  [][FindScanKey /\ Holders(E, call'.buf) # {} =>
       /\ statics'.last_match \in Holders(E, call'.buf)
       /\ ShowsHit(E', call'.buf, statics'.last_match,
                   call.before.row[statics'.last_match + 1].hl, TRUE)]_vars

\* C25 for the viewports that have a row: on every search hit at render offset k of row
\* m the cursor is on row m at the raw index whose character covers render column k,
\* exactly the len(query) highlight cells from k are Match, and at the next frame of a
\* viewport with at least 1 row row_offset is m.
C25_HitIsTopRowOfViewportWithRows ==
  [][FindScanKey /\ Holders(E, call'.buf) # {} =>
       /\ statics'.last_match \in Holders(E, call'.buf)
       /\ ShowsHit(E', call'.buf, statics'.last_match,
                   call.before.row[statics'.last_match + 1].hl, E.screenrows >= 1)]_vars

\* the query is found behind the tab of row 0, which the search has made the top row of
\* a viewport of 2 rows that started further down
C25_Witness ==
  /\ pc = "find"
  /\ E.screenrows = 2
  /\ call.buf # <<>>
  /\ call.before.rowoff >= 1
  /\ statics.last_match = 0
  /\ E.rowoff = 0
  /\ E.curr_y = 0
  /\ E.curr_x < editorRowCxtoRx(E.row[1].chars, E.curr_x)
  /\ \E i \in 1..Len(E.row[1].hl) : E.row[1].hl[i] = HL_MATCH

\* the style in which the cells of a highlight class are to appear
ClassStyle(hl) ==
  IF hl = HL_NORMAL THEN TermDefault
  ELSE IF hl \in {HL_MATCH, HL_ERROR}
       THEN [TermDefault EXCEPT !.bg = editorSyntaxToStyle(hl).rgb, !.bold = TRUE]
       ELSE [TermDefault EXCEPT !.fg = editorSyntaxToStyle(hl).rgb,
                                !.bold = IS_BOLD(editorSyntaxToStyle(hl)),
                                !.italic = IS_ITALIC(editorSyntaxToStyle(hl))]

\* token p of the drawing is read by a terminal in the style of its cell's class
UnderClassStyle(p) ==
  TermAfter(mp.d.out, p - 1) = ClassStyle(mp.hl[mp.d.out[p].j + 1])

\* token p of the drawing is a placeholder between an inversion and a reset
InvertedPlaceholder(p) ==
  /\ TermAfter(mp.d.out, p - 1).inverse
  /\ p < Len(mp.d.out)
  /\ TermAfter(mp.d.out, p + 1) = TermDefault

\* a control character has been drawn between cell j and the last cell in front of it
\* that is of another class and not a control character
ControlSinceOtherClass(j) ==
  \E i \in 0..(j - 1) :
    /\ iscntrl(mp.c[i + 1])
    /\ \A n \in (i + 1)..(j - 1) : iscntrl(mp.c[n + 1]) \/ mp.hl[n + 1] = mp.hl[j + 1]

\* C26: every character that is drawn and is not a control character is emitted while
\* the terminal's style is the style of its highlight class, and a control character is
\* emitted as an inverted placeholder that does not break the run around it: the
\* characters after it are emitted under the full style of their class.
C26_DrawnUnderClassStyle ==
  mp.step = "draw" =>
    \A p \in 1..Len(mp.d.out) :
      /\ mp.d.out[p].k = "chr" => UnderClassStyle(p)
      /\ mp.d.out[p].k = "sym" => InvertedPlaceholder(p)

\* what holds of C26: placeholders are inverted, and a character is emitted under the
\* style of its class when that style is a foreground colour alone or nothing, or when
\* no control character has been drawn since the last character of another class
C26_DrawnUnderClassStyleBeforeControl ==
  mp.step = "draw" =>
    \A p \in 1..Len(mp.d.out) :
      /\ mp.d.out[p].k = "chr"
           /\ (\/ ~ControlSinceOtherClass(mp.d.out[p].j)
               \/ ClassStyle(mp.hl[mp.d.out[p].j + 1]) =
                    [TermDefault EXCEPT !.fg = ClassStyle(mp.hl[mp.d.out[p].j + 1]).fg])
           => UnderClassStyle(p)
      /\ mp.d.out[p].k = "sym" => InvertedPlaceholder(p)

\* W: the columns of the window that are right of the line numbers
TextColumns(e) == e.screencols - e.row_num_offset - 1

\* the render characters of row filerow from col_offset on
RestOfRow(e, filerow) ==
  IF Len(e.row[filerow + 1].render) - e.coloff > 0
  THEN Len(e.row[filerow + 1].render) - e.coloff ELSE 0

\* a frame of E has been drawn and the editor goes on
FrameDrawn == hist.frames >= 1 /\ pc \in {"loop", "find"}

\* the row of the cursor has a character at the cursor's render column
CursorOnCharacter(e) ==
  /\ 0 <= e.curr_y /\ e.curr_y < e.numrows
  /\ e.render_x < Len(e.row[e.curr_y + 1].render)

\* the character at the cursor's render column is one of those emitted for its row
CursorCharacterEmitted(e) ==
  /\ OnScreen(e, e.curr_y)
  /\ e.coloff <= e.render_x
  /\ e.render_x < e.coloff + DrawnLen(e, e.curr_y)

\* C27: for each visible row a frame emits exactly min(max(len(render) - col_offset, 0),
\* W) render characters from col_offset on, W = cols - gutter_width - 1, and so, after
\* scroll(), the render character at the cursor's render column is among them whenever
\* the row has a character there.
C27_FrameEmitsWindowOfRow ==
  FrameDrawn /\ E.screenrows >= 1 =>
    /\ \A filerow \in 0..(E.numrows - 1) :
         OnScreen(E, filerow) =>
           DrawnLen(E, filerow) =
             (IF RestOfRow(E, filerow) < TextColumns(E)
              THEN RestOfRow(E, filerow) ELSE TextColumns(E))
    /\ CursorOnCharacter(E) => CursorCharacterEmitted(E)

\* what holds of C27: a row whose rest fits into the W columns is emitted whole, with
\* the character at the cursor, and of a longer row no more than W - 1 characters are
\* emitted
C27_FrameEmitsRowThatFits ==
  FrameDrawn /\ E.screenrows >= 1 =>
    /\ \A filerow \in 0..(E.numrows - 1) :
         OnScreen(E, filerow) =>
           DrawnLen(E, filerow) =
             (IF RestOfRow(E, filerow) <= TextColumns(E)
              THEN RestOfRow(E, filerow) ELSE TextColumns(E) - 1)
    /\ CursorOnCharacter(E) /\ RestOfRow(E, E.curr_y) <= TextColumns(E) =>
         CursorCharacterEmitted(E)

\* raw_x is on a character of row y or right behind its last one, and 0 past the last row
CursorColumnOnRow(e) ==
  /\ 0 <= e.curr_x
  /\ e.curr_y < e.numrows => e.curr_x <= Len(e.row[e.curr_y + 1].chars)
  /\ e.curr_y = e.numrows => e.curr_x = 0

\* C28: after every key event, Enter at column 0 of a row that starts with a tab and
\* Enter inside the indentation of a row among them, 0 <= raw_x <= len(raw of row y),
\* and raw_x = 0 when y = numrows.
C28_CursorColumnWithinRow ==
  [][pc = "loop" /\ pc' = "loop" /\ CursorColumnOnRow(E) /\ E.curr_y <= E.numrows =>
       CursorColumnOnRow(E')]_vars

\* what holds of C28: every key but Enter keeps raw_x inside row y, and so does Enter on
\* a row whose indentation is not wider in the render text than in the raw text
C28_CursorColumnWithinRowOfPlainIndentation ==
  [][pc = "loop" /\ pc' = "loop" /\ CursorColumnOnRow(E) /\ E.curr_y <= E.numrows
       /\ (KeyEnter => getLeadingSpaces(E, E.curr_y) <= RowLen(E))
       /\ ~KeyEnterPastEnd =>
       CursorColumnOnRow(E')]_vars

\* case '\r': editorInsertNewLine() is called
EnterKey == KeyEnter \/ KeyEnterPastEnd \/ KeyEnterFault

\* the row that editorInsertNewLine hands to getLeadingSpaces, which reads its render text
LeadingSpacesRow(e) == e.curr_y

\* C29: a key event at a valid cursor position reads and writes only rows with index in
\* [0, numrows): Enter on the line past the last row, the empty buffer included, appends
\* a row without an access to row[numrows], so the editor goes on with one row more and
\* the cursor at the start of the line after it.
C29_EnterReadsRowsOfBuffer ==
  [][EnterKey /\ OnBuffer(E) =>
       /\ 0 <= LeadingSpacesRow(E) /\ LeadingSpacesRow(E) < E.numrows
       /\ pc' = "loop"
       /\ E.curr_y = E.numrows =>
            E'.numrows = E.numrows + 1 /\ E'.curr_y = E'.numrows /\ E'.curr_x = 0]_vars

\* what holds of C29: Enter on a row of the buffer reads that row and goes on, and a
\* character typed on the line past the last row appends the row it is written to
C29_EnterOnRowReadsRowsOfBuffer ==
  /\ [][EnterKey /\ OnBuffer(E) /\ E.curr_y < E.numrows =>
          /\ 0 <= LeadingSpacesRow(E) /\ LeadingSpacesRow(E) < E.numrows
          /\ pc' = "loop"]_vars
  /\ [][KeyChar /\ OnBuffer(E) /\ E.curr_y = E.numrows =>
          /\ E'.numrows = E.numrows + 1
          /\ E'.curr_y < E'.numrows
          /\ pc' = "loop"]_vars

\* C30: under the C profile the highlighter writes highlight classes only at indices i
\* with 0 <= i < len(render), also when a special token and what follows it, as in
\* "#if 0" and "#define X 1", goes to the end of the row and ends with a digit: no class
\* is written at index len(render).
C30_HighlightWrittenInsideRow ==
  mp.step = "keywords" => mp.s.oob = {}

\* the raw texts rows with row y (from 0, y > 0) joined to the end of row y - 1
JoinedRows(rows, y) ==
  [j \in 1..(Len(rows) - 1) |->
     IF j < y THEN rows[j] ELSE IF j = y THEN rows[y] \o rows[y + 1] ELSE rows[j + 1]]

\* the raw texts of all rows, one after the other
AllText(rows) == Concat(rows)

\* C31: Backspace at column 0 of a row y > 0 joins row y to row y - 1: numrows is one
\* less, the new row y - 1 is the old row y - 1 followed by the old row y, the other
\* rows keep their content and order, the concatenation of all raw texts is unchanged,
\* and the cursor is at (old len(row y - 1), y - 1); Backspace at (0, 0) and at
\* y = numrows changes nothing.
C31_BackspaceJoinsRows ==
  /\ [][KeyBackspace /\ E.curr_x = 0 /\ 0 < E.curr_y /\ E.curr_y < E.numrows =>
          /\ E'.numrows = E.numrows - 1
          /\ Contents(E') = JoinedRows(Contents(E), E.curr_y)
          /\ AllText(Contents(E')) = AllText(Contents(E))
          /\ E'.curr_x = Len(E.row[E.curr_y].chars)
          /\ E'.curr_y = E.curr_y - 1]_vars
  /\ [][KeyBackspace /\ ((E.curr_x = 0 /\ E.curr_y = 0) \/ E.curr_y = E.numrows) =>
          E' = E]_vars

\* the second line of a loaded file has been joined to its first line, which is not
\* empty, and the cursor is behind what the first line was
C31_Witness ==
  /\ pc = "loop"
  /\ Len(saved) >= 2
  /\ E.numrows = Len(saved) - 1
  /\ Contents(E) = JoinedRows(saved, 1)
  /\ saved[1] # <<>> /\ saved[2] # <<>>
  /\ E.curr_y = 0
  /\ E.curr_x = Len(saved[1])

\* the index up to which the scan with locals s has dealt with the row: i, or the end of
\* the row once the line comment rule has classed the rest of it and left the loop
ScanPosition(render, s) == IF s.brk THEN Len(render) ELSE s.i

\* every iteration of the scan moves the scan position on by at least one
ScanMovesOn ==
  [][ScanIteration =>
       ScanPosition(mp.render, mp'.s) >= ScanPosition(mp.render, mp.s) + 1]_vars

\* C32: the handling of a key ends: every iteration of a row's scan moves the scan
\* position on by at least one, and the cascade of re-highlighting that an edit starts
\* goes from each row to the row below it and stops at the first row whose exit state is
\* unchanged, or at the last row of the buffer.
C32_ScanMovesOnAndCascadeStopsAtLastRow ==
  /\ ScanMovesOn
  /\ [][CascadeNext => mp'.at = mp.at + 1 /\ CascadeChanged]_vars
  /\ [][CascadeEnd => ~CascadeChanged \/ mp.at = Len(mp.row) - 1]_vars

\* what holds of C32: the scan moves on, and the cascade goes down row by row and stops
\* at the first row whose exit state is unchanged or whose index is E.numrows - 1, with
\* E.numrows as it is when editorUpdateRow is called
C32_ScanMovesOnAndCascadeStopsAtNumrows ==
  /\ ScanMovesOn
  /\ [][CascadeNext => mp'.at = mp.at + 1 /\ CascadeChanged /\ mp'.at < mp.numrows]_vars
  /\ [][CascadeEnd => ~CascadeChanged \/ mp.at >= mp.numrows - 1]_vars

\* editorUpdateRow returns
C32_UpdateRowReturns == <>(mp.step = "done")

====
